---- MODULE Spec2Model ----
(***************************************************************************)
(* safemocker: the mock safe-action client (client.ts), its validation     *)
(* adapter (validation.ts), error handler and result wrapper.              *)
(*                                                                         *)
(* JavaScript values are modelled by strings; the string Undefined stands  *)
(* for the value undefined.  An object is modelled by the record of its    *)
(* properties whose value is defined: a property holding undefined and a   *)
(* missing property are the same to every reader of a result               *)
(* (result.x === undefined), so {data: undefined, validationErrors: m}     *)
(* is the record [validationErrors |-> m] and {data: undefined} is the     *)
(* empty record.                                                           *)
(***************************************************************************)
EXTENDS Naturals, Sequences, FiniteSets, TLC

VARIABLES config, middlewares, builders, actions, calls

vars == <<config, middlewares, builders, actions, calls>>

(***************************************************************************)
(* Values                                                                  *)
(***************************************************************************)
Undefined == "undefined"

EmptyObject == <<>>

\* the four slots of SafeActionResult
Slots == {"data", "serverError", "fieldErrors", "validationErrors"}

\* thrown values: an Error object with its class name and its message
Err(name, message) == [name |-> name, message |-> message]

NoError == Err("", "")

\* own and inherited properties every object literal {} answers for
ObjectPrototypeKeys ==
  {"constructor", "toString", "valueOf", "hasOwnProperty", "__proto__"}

(***************************************************************************)
(* The schema library at its boundary: schema.parse(value) returns the     *)
(* parsed value, throws a ZodError carrying issues, or throws something    *)
(* else.  The schema "Obj" is an object schema that strips unknown keys;   *)
(* the schema "Any" accepts every value unchanged.                         *)
(***************************************************************************)
Str(s) == [s |-> s]

Num(n) == [n |-> n]

Issue(path, message) == [path |-> path, message |-> message]

ParseOk(v) == [kind |-> "ok", data |-> v, issues |-> <<>>, error |-> NoError]

ParseZod(issues) ==
  [kind |-> "zod", data |-> Undefined, issues |-> issues, error |-> NoError]

ParseThrow(e) == [kind |-> "throw", data |-> Undefined, issues |-> <<>>, error |-> e]

\* the raw inputs callers pass: "v_extra" is valid and parses to "v", the
\* others fail with the issues Parse gives them, "boom" makes parse throw
Inputs == {"v_extra", "bad", "bad_nested", "bad_root", "bad_proto", "boom"}

Parse(schema, value) ==
  CASE schema = "Any" -> ParseOk(value)
    [] value = "v" -> ParseOk("v")
    [] value = "v_extra" -> ParseOk("v")
    [] value = "bad" ->
         ParseZod(<<Issue(<<Str("name")>>, "Too small"),
                    Issue(<<Str("age")>>, "Too small"),
                    Issue(<<Str("name")>>, "Invalid")>>)
    [] value = "bad_nested" ->
         ParseZod(<<Issue(<<Str("data"), Str("id")>>, "Required"),
                    Issue(<<Str("items"), Num(0)>>, "Required")>>)
    [] value = "bad_proto" ->
         ParseZod(<<Issue(<<Str("constructor")>>, "Required")>>)
    [] value = "boom" -> ParseThrow(Err("Error", "Schema exploded"))
    [] OTHER -> ParseZod(<<Issue(<<>>, "Invalid input")>>)

(***************************************************************************)
(* validation.ts                                                           *)
(***************************************************************************)
\* String(segment) of a path segment (a string or a number)
SegStr(seg) == IF "n" \in DOMAIN seg THEN ToString(seg.n) ELSE seg.s

RECURSIVE join(_)
\* issue.path.join('.')
join(path) ==
  IF path = <<>> THEN ""
  ELSE IF Len(path) = 1 THEN SegStr(path[1])
  ELSE SegStr(path[1]) \o "." \o join(Tail(path))

RECURSIVE forEachIssue(_, _)
\* error.issues.forEach(...): acc.map is the fieldErrors object so far;
\* acc.threw when fieldErrors[path].push raised a TypeError
forEachIssue(issues, acc) ==
  IF issues = <<>> \/ acc.threw THEN acc
  ELSE LET path == join(Head(issues).path)
           msg == Head(issues).message
       IN  IF path \in DOMAIN acc.map
           THEN forEachIssue(Tail(issues),
                  [acc EXCEPT !.map = [acc.map EXCEPT ![path] = Append(@, msg)]])
           ELSE IF path \in ObjectPrototypeKeys
           \* fieldErrors[path] is the inherited member, which is truthy and
           \* has no push
           THEN [acc EXCEPT !.threw = TRUE]
           ELSE forEachIssue(Tail(issues),
                  [acc EXCEPT !.map = (path :> <<msg>>) @@ acc.map])

PushTypeError == Err("TypeError", "fieldErrors[path].push is not a function")

\* result-wrapper.ts, wrapValidationErrors
wrapValidationErrors(fieldErrors) == [fieldErrors |-> fieldErrors]

\* result-wrapper.ts, wrapResult
wrapResult(value) ==
  IF value = Undefined THEN EmptyObject ELSE [data |-> value]

Validation(success, data, result, threw, error) ==
  [success |-> success, data |-> data, result |-> result,
   threw |-> threw, error |-> error]

validateInput(input, schema) ==
  LET parsed == Parse(schema, input)
      acc == forEachIssue(parsed.issues, [threw |-> FALSE, map |-> EmptyObject])
  IN  CASE parsed.kind = "ok" ->
             Validation(TRUE, parsed.data, EmptyObject, FALSE, NoError)
        [] parsed.kind = "zod" ->
             IF acc.threw
             THEN Validation(FALSE, Undefined, EmptyObject, TRUE, PushTypeError)
             ELSE Validation(FALSE, Undefined, wrapValidationErrors(acc.map),
                             FALSE, NoError)
        [] OTHER -> Validation(FALSE, Undefined, EmptyObject, TRUE, parsed.error)

\* validateOutput, had it filled fieldErrors beside validationErrors
validateOutput_bothSlots(output, schema) ==
  LET parsed == Parse(schema, output)
      acc == forEachIssue(parsed.issues, [threw |-> FALSE, map |-> EmptyObject])
  IN  CASE parsed.kind = "ok" ->
             Validation(TRUE, parsed.data, EmptyObject, FALSE, NoError)
        [] parsed.kind = "zod" ->
             Validation(FALSE, Undefined,
                        [fieldErrors |-> acc.map, validationErrors |-> acc.map],
                        FALSE, NoError)
        [] OTHER -> Validation(FALSE, Undefined, EmptyObject, TRUE, parsed.error)

validateOutput(output, schema) ==
  LET parsed == Parse(schema, output)
      acc == forEachIssue(parsed.issues, [threw |-> FALSE, map |-> EmptyObject])
  IN  CASE parsed.kind = "ok" ->
             Validation(TRUE, parsed.data, EmptyObject, FALSE, NoError)
        [] parsed.kind = "zod" ->
             IF acc.threw
             THEN Validation(FALSE, Undefined, EmptyObject, TRUE, PushTypeError)
             ELSE Validation(FALSE, Undefined, [validationErrors |-> acc.map],
                             FALSE, NoError)
        [] OTHER -> Validation(FALSE, Undefined, EmptyObject, TRUE, parsed.error)

(***************************************************************************)
(* error-handler.ts                                                        *)
(***************************************************************************)
handleError(error, options) ==
  IF options.isProduction THEN [serverError |-> options.defaultServerError]
  ELSE IF error.message # "" THEN [serverError |-> error.message]
  ELSE [serverError |-> options.defaultServerError]

(***************************************************************************)
(* client.ts: MockSafeActionClient                                         *)
(***************************************************************************)
\* a || b on strings: the empty string and undefined are falsy
OrElse(obj, key, default) ==
  IF key \in DOMAIN obj /\ obj[key] # "" /\ obj[key] # Undefined
  THEN obj[key] ELSE default

\* a ?? b
Coalesce(obj, key, default) == IF key \in DOMAIN obj THEN obj[key] ELSE default

\* constructor(config?)
\* the constructor, had it merged one level deep: a supplied auth object is
\* taken whole and its omitted fields get no default
MockSafeActionClient_shallow(cfg) ==
  [defaultServerError |-> OrElse(cfg, "defaultServerError", "Something went wrong"),
   isProduction |-> Coalesce(cfg, "isProduction", FALSE),
   auth |-> IF "auth" \in DOMAIN cfg THEN cfg.auth
            ELSE [enabled |-> TRUE, testUserId |-> "test-user-id",
                  testUserEmail |-> "test@example.com",
                  testAuthToken |-> "test-token"]]

MockSafeActionClient(cfg) ==
  LET auth == IF "auth" \in DOMAIN cfg THEN cfg.auth ELSE EmptyObject
  IN  [defaultServerError |-> OrElse(cfg, "defaultServerError", "Something went wrong"),
       isProduction |-> Coalesce(cfg, "isProduction", FALSE),
       auth |-> [enabled |-> Coalesce(auth, "enabled", TRUE),
                 testUserId |-> OrElse(auth, "testUserId", "test-user-id"),
                 testUserEmail |-> OrElse(auth, "testUserEmail", "test@example.com"),
                 testAuthToken |-> OrElse(auth, "testAuthToken", "test-token")]]

\* the configurations callers construct clients with
SuppliedConfigs ==
  { EmptyObject,
    [defaultServerError |-> "Custom error", isProduction |-> TRUE,
     auth |-> [enabled |-> FALSE, testUserId |-> "custom-user-id"]],
    [defaultServerError |-> "Middleware error", isProduction |-> FALSE],
    [defaultServerError |-> ""] }

(***************************************************************************)
(* User code: middleware functions and handlers, by what they do.          *)
(*   pre   "next": calls next(params); "throw": throws before calling      *)
(*         next; "return": returns value without calling next              *)
(*   params the argument of next: no ctx property, or ctx = patch, or      *)
(*         with spread ctx = {...ctx, ...patch}                            *)
(*   post  what it does once the awaited next() has settled: "pass"        *)
(*         returns its result (return next()); "drop" returns nothing;     *)
(*         "catch" returns the result, or value when next() rejected;      *)
(*         "again" calls next a second time and returns that result        *)
(***************************************************************************)
Mw(name, pre, hasCtx, spread, patch, post, value, error) ==
  [name |-> name, pre |-> pre, hasCtx |-> hasCtx, spread |-> spread,
   patch |-> patch, post |-> post, value |-> value, error |-> error]

\* async ({next}) => next({ctx: {step1: 'done'}})
mwStep1 == Mw("step1", "next", TRUE, FALSE, [step1 |-> "done"], "pass", Undefined, NoError)

\* async ({next, ctx}) => next({ctx: {...ctx, step1: 'redone', step2: 'done'}})
mwStep2 ==
  Mw("step2", "next", TRUE, TRUE, [step1 |-> "redone", step2 |-> "done"], "pass",
     Undefined, NoError)

\* async ({next}) => { await next(); }
mwDrop == Mw("drop", "next", FALSE, FALSE, EmptyObject, "drop", Undefined, NoError)

\* async () => { throw new Error('Middleware failed') }
mwThrow ==
  Mw("throw", "throw", FALSE, FALSE, EmptyObject, "pass", Undefined,
     Err("Error", "Middleware failed"))

\* async () => 'bad_proto'
mwShort == Mw("short", "return", FALSE, FALSE, EmptyObject, "pass", "bad_proto", NoError)

\* async ({next}) => { try { return await next() } catch { return 'boom' } }
mwCatch == Mw("catch", "next", FALSE, FALSE, EmptyObject, "catch", "boom", NoError)

\* async ({next}) => { await next(); return next() }
mwTwice == Mw("twice", "next", FALSE, FALSE, EmptyObject, "again", Undefined, NoError)

Middlewares == {mwStep1, mwStep2, mwDrop, mwThrow, mwShort, mwCatch}

Handler(name, act, value, error) ==
  [name |-> name, act |-> act, value |-> value, error |-> error]

\* act "echo" returns parsedInput, "return" returns value, "throw" throws error
Handlers ==
  { Handler("echo", "echo", Undefined, NoError),
    Handler("extra", "return", "v_extra", NoError),
    Handler("bad", "return", "bad_nested", NoError),
    Handler("void", "return", Undefined, NoError),
    Handler("throw", "throw", Undefined, Err("Error", "Handler error")),
    Handler("throwNoMessage", "throw", Undefined, Err("Error", "")) }

(***************************************************************************)
(* Bounds                                                                  *)
(***************************************************************************)
MaxMiddlewares == 2

(***************************************************************************)
(* client.ts: the builders.  A builder is an object whose fields are read  *)
(* through this when an action runs; an action is the closure returned by  *)
(* createAction, which captures its builder (this) and its handler.        *)
(***************************************************************************)
SchemaBuilder(schema) ==
  [kind |-> "schema", schema |-> schema, outputSchema |-> Undefined,
   metadata |-> Undefined]

\* a constructor that forgets the output schema it is handed
MetadataBuilder_forgetsOutputSchema(schema, meta, outSchema) ==
  [kind |-> "metadata", schema |-> schema, outputSchema |-> Undefined,
   metadata |-> meta, given |-> outSchema]

\* given records the constructor's outputSchema argument
MetadataBuilder(schema, meta, outSchema) ==
  [kind |-> "metadata", schema |-> schema, outputSchema |-> outSchema,
   metadata |-> meta, given |-> outSchema]

\* ActionMetadata, had MetadataBuilder.createAction passed undefined as
\* SchemaBuilder.action does
ActionMetadata_undefined(a) == Undefined

\* the metadata a middleware is handed: SchemaBuilder.action passes
\* undefined to createAction, MetadataBuilder.createAction reads this.metadata
ActionMetadata(a) ==
  LET b == builders[actions[a].builder]
  IN  IF b.kind = "schema" THEN Undefined ELSE b.metadata

(***************************************************************************)
(* One invocation of an action.                                            *)
(*   pc      "middleware": the middleware of the top frame is running and  *)
(*           has not called next; "handler": the handler is running;       *)
(*           "settling": a stage has returned or thrown and the promise    *)
(*           awaited below the top frame is settled; "done"                *)
(*   stack   the middlewares entered and not yet returned, outermost first *)
(*   pending the settled value or error on its way up                      *)
(* log (the stages entered, with their arguments), thrown (the errors the  *)
(* stages threw), caught (the error the catch block received), chainResult *)
(* and outSchema (handlerResult and this._outputSchema as step 3 read      *)
(* them) and via (the return statement taken) record what happened.        *)
(***************************************************************************)
Value(v) == [kind |-> "value", value |-> v, error |-> NoError]

Throw(e) == [kind |-> "throw", value |-> Undefined, error |-> e]

\* again: the middleware has called next a second time
Frame(index, middleware, ctx) ==
  [index |-> index, middleware |-> middleware, ctx |-> ctx, again |-> FALSE]

Entry(stage, index, name, ctx, meta, parsedInput) ==
  [stage |-> stage, index |-> index, name |-> name, ctx |-> ctx,
   metadata |-> meta, parsedInput |-> parsedInput]

NewCall(a, input) ==
  [action |-> a, input |-> input, pc |-> "start", parsedInput |-> Undefined,
   stack |-> <<>>, pending |-> Value(Undefined), log |-> <<>>, thrown |-> <<>>,
   caught |-> NoError, chainResult |-> Undefined, outSchema |-> Undefined,
   via |-> "",
   settled |-> "pending", result |-> EmptyObject]

\* return <envelope> from the async function: the promise resolves
Return(c, envelope, via) ==
  [c EXCEPT !.pc = "done", !.settled = "resolved", !.result = envelope,
            !.via = via, !.stack = <<>>]

\* the promise rejects with error
Reject(c, error) ==
  [c EXCEPT !.pc = "done", !.settled = "rejected", !.caught = error,
            !.stack = <<>>]

\* catchBlock, had it reported a caught ZodError the way input validation
\* reports one
catchBlock_zodAsFieldErrors(c, error) ==
  [Return(c,
          IF error.name = "ZodError"
          THEN wrapValidationErrors([root |-> <<error.message>>])
          ELSE handleError(error, [defaultServerError |-> config.defaultServerError,
                                   isProduction |-> config.isProduction]),
          "catch")
   EXCEPT !.caught = error]

\* catchBlock, had it passed its own default message instead of the client's
catchBlock_ownDefault(c, error) ==
  [Return(c, handleError(error, [defaultServerError |-> "Something went wrong",
                                 isProduction |-> config.isProduction]),
          "catch")
   EXCEPT !.caught = error]

\* catchBlock, had it not passed the production flag
catchBlock_leaks(c, error) ==
  [Return(c, handleError(error, [defaultServerError |-> config.defaultServerError,
                                 isProduction |-> FALSE]),
          "catch")
   EXCEPT !.caught = error]

\* catch (error) { return handleError(error, {...}) }
catchBlock(c, error) ==
  [Return(c, handleError(error, [defaultServerError |-> config.defaultServerError,
                                 isProduction |-> config.isProduction]),
          "catch")
   EXCEPT !.caught = error]

\* middlewareChain, had it taken the middlewares from the end of the list
middlewareChain_reversed(c, index, currentCtx) ==
  IF index >= Len(middlewares)
  THEN [c EXCEPT !.pc = "handler",
                 !.log = Append(@, Entry("handler", index,
                                         actions[c.action].handler.name,
                                         currentCtx, Undefined, c.parsedInput))]
  ELSE LET middleware == middlewares[Len(middlewares) - index]
       IN  [c EXCEPT !.pc = "middleware",
                     !.stack = Append(@, Frame(index, middleware, currentCtx)),
                     !.log = Append(@, Entry("middleware", index, middleware.name,
                                             currentCtx, ActionMetadata(c.action),
                                             Undefined))]

\* middlewareChain, had it handed the handler the raw input
middlewareChain_rawInput(c, index, currentCtx) ==
  IF index >= Len(middlewares)
  THEN [c EXCEPT !.pc = "handler",
                 !.log = Append(@, Entry("handler", index,
                                         actions[c.action].handler.name,
                                         currentCtx, Undefined, c.input))]
  ELSE LET middleware == middlewares[index + 1]
       IN  [c EXCEPT !.pc = "middleware",
                     !.stack = Append(@, Frame(index, middleware, currentCtx)),
                     !.log = Append(@, Entry("middleware", index, middleware.name,
                                             currentCtx, ActionMetadata(c.action),
                                             Undefined))]

\* middlewareChain(index, currentCtx)
\* middlewareChain, had it compared the index with the last position of the
\* list instead of its length
middlewareChain_skipsLast(c, index, currentCtx) ==
  IF index + 1 >= Len(middlewares)
  THEN [c EXCEPT !.pc = "handler",
                 !.log = Append(@, Entry("handler", index,
                                         actions[c.action].handler.name,
                                         currentCtx, Undefined, c.parsedInput))]
  ELSE LET middleware == middlewares[index + 1]
       IN  [c EXCEPT !.pc = "middleware",
                     !.stack = Append(@, Frame(index, middleware, currentCtx)),
                     !.log = Append(@, Entry("middleware", index, middleware.name,
                                             currentCtx, ActionMetadata(c.action),
                                             Undefined))]

middlewareChain(c, index, currentCtx) ==
  IF index >= Len(middlewares)
  THEN [c EXCEPT !.pc = "handler",
                 !.log = Append(@, Entry("handler", index,
                                         actions[c.action].handler.name,
                                         currentCtx, Undefined, c.parsedInput))]
  ELSE LET middleware == middlewares[index + 1]
       IN  [c EXCEPT !.pc = "middleware",
                     !.stack = Append(@, Frame(index, middleware, currentCtx)),
                     !.log = Append(@, Entry("middleware", index, middleware.name,
                                             currentCtx, ActionMetadata(c.action),
                                             Undefined))]

\* the argument a middleware passes to next
MwParams(mw, ctx) ==
  IF ~mw.hasCtx THEN EmptyObject
  ELSE IF mw.spread THEN [ctx |-> mw.patch @@ ctx]
  ELSE [ctx |-> mw.patch]

\* next, had it replaced the context by the patch instead of merging
next_replacesCtx(c, frame, params) ==
  LET newCtx == IF "ctx" \in DOMAIN params THEN params.ctx ELSE EmptyObject
  IN  middlewareChain(c, frame.index + 1, newCtx)

\* next(params) as called by the middleware of frame
\* next, had a patch replaced the context (a call without ctx keeping it)
next_patchReplaces(c, frame, params) ==
  middlewareChain(c, frame.index + 1,
                  IF "ctx" \in DOMAIN params THEN params.ctx ELSE frame.ctx)

next(c, frame, params) ==
  LET newCtx == IF "ctx" \in DOMAIN params THEN params.ctx ELSE EmptyObject
      mergedCtx == newCtx @@ frame.ctx
  IN  middlewareChain(c, frame.index + 1, mergedCtx)

\* outputPhase, had it validated against a permissive default schema when
\* none was registered
outputPhase_alwaysValidates(c, handlerResult) ==
  LET schema == builders[actions[c.action].builder].outputSchema
      outputValidationResult ==
        validateOutput(handlerResult, IF schema = Undefined THEN "Obj" ELSE schema)
      c1 == [c EXCEPT !.chainResult = handlerResult, !.outSchema = schema]
  IN  IF outputValidationResult.threw
      THEN catchBlock(c1, outputValidationResult.error)
      ELSE IF ~outputValidationResult.success
      THEN Return(c1, outputValidationResult.result, "output")
      ELSE Return(c1, wrapResult(outputValidationResult.data), "wrap")

\* outputPhase, had it wrapped the raw value after a successful validation
outputPhase_rawData(c, handlerResult) ==
  LET schema == builders[actions[c.action].builder].outputSchema
      outputValidationResult == validateOutput(handlerResult, schema)
      c1 == [c EXCEPT !.chainResult = handlerResult, !.outSchema = schema]
  IN  IF schema # Undefined
      THEN IF outputValidationResult.threw
           THEN catchBlock(c1, outputValidationResult.error)
           ELSE IF ~outputValidationResult.success
           THEN Return(c1, outputValidationResult.result, "output")
           ELSE Return(c1, wrapResult(handlerResult), "wrap")
      ELSE Return(c1, wrapResult(handlerResult), "wrap")

\* outputPhase, had it returned the validation result itself on success
outputPhase_unwrapped(c, handlerResult) ==
  LET schema == builders[actions[c.action].builder].outputSchema
      outputValidationResult == validateOutput(handlerResult, schema)
      c1 == [c EXCEPT !.chainResult = handlerResult, !.outSchema = schema]
  IN  IF schema # Undefined
      THEN IF outputValidationResult.threw
           THEN catchBlock(c1, outputValidationResult.error)
           ELSE Return(c1, outputValidationResult.result,
                       IF outputValidationResult.success THEN "wrap" ELSE "output")
      ELSE Return(c1, wrapResult(handlerResult), "wrap")

\* steps 3 and 4 of createAction
outputPhase(c, handlerResult) ==
  LET schema == builders[actions[c.action].builder].outputSchema
      outputValidationResult == validateOutput(handlerResult, schema)
      c1 == [c EXCEPT !.chainResult = handlerResult, !.outSchema = schema]
  IN  IF schema # Undefined
      THEN IF outputValidationResult.threw
           THEN catchBlock(c1, outputValidationResult.error)
           ELSE IF ~outputValidationResult.success
           THEN Return(c1, outputValidationResult.result, "output")
           ELSE Return(c1, wrapResult(outputValidationResult.data), "wrap")
      ELSE Return(c1, wrapResult(handlerResult), "wrap")

\* createAction, had input validation run outside the try block
createAction_noTry(a, input) ==
  LET c == NewCall(a, input)
      validationResult == validateInput(input, builders[actions[a].builder].schema)
  IN  IF validationResult.threw THEN Reject(c, validationResult.error)
      ELSE IF ~validationResult.success
      THEN Return(c, validationResult.result, "input")
      ELSE middlewareChain([c EXCEPT !.parsedInput = validationResult.data],
                           0, EmptyObject)

\* createAction, had the invocations of an action shared one context object:
\* a new invocation starts from the context the latest one has reached
createAction_sharedContext(a, input) ==
  LET c == NewCall(a, input)
      validationResult == validateInput(input, builders[actions[a].builder].schema)
      context == IF calls = <<>> \/ calls[Len(calls)].log = <<>> THEN EmptyObject
                 ELSE calls[Len(calls)].log[Len(calls[Len(calls)].log)].ctx
  IN  IF validationResult.threw THEN catchBlock(c, validationResult.error)
      ELSE IF ~validationResult.success
      THEN Return(c, validationResult.result, "input")
      ELSE middlewareChain([c EXCEPT !.parsedInput = validationResult.data],
                           0, context)

\* the async function returned by createAction, up to its first await
createAction(a, input) ==
  LET c == NewCall(a, input)
      validationResult == validateInput(input, builders[actions[a].builder].schema)
  IN  IF validationResult.threw THEN catchBlock(c, validationResult.error)
      ELSE IF ~validationResult.success
      THEN Return(c, validationResult.result, "input")
      ELSE middlewareChain([c EXCEPT !.parsedInput = validationResult.data],
                           0, EmptyObject)

Top(c) == c.stack[Len(c.stack)]

Pop(c) == [c EXCEPT !.stack = SubSeq(@, 1, Len(@) - 1)]

\* middlewareRuns, had the engine gone on to the next stage by itself when a
\* middleware returns without calling next
middlewareRuns_continues(c) ==
  LET frame == Top(c)
      mw == frame.middleware
  IN  CASE mw.pre = "throw" ->
             [Pop(c) EXCEPT !.pc = "settling", !.pending = Throw(mw.error),
                            !.thrown = Append(@, mw.error)]
        [] OTHER -> next(c, frame, MwParams(mw, frame.ctx))

\* the running middleware goes on to its first await or to its end
middlewareRuns(c) ==
  LET frame == Top(c)
      mw == frame.middleware
  IN  CASE mw.pre = "throw" ->
             [Pop(c) EXCEPT !.pc = "settling", !.pending = Throw(mw.error),
                            !.thrown = Append(@, mw.error)]
        [] mw.pre = "return" ->
             [Pop(c) EXCEPT !.pc = "settling", !.pending = Value(mw.value)]
        [] mw.pre = "hang" -> [c EXCEPT !.pc = "hung"]
        [] OTHER -> next(c, frame, MwParams(mw, frame.ctx))

\* return await handler({parsedInput, ctx})
handlerRuns(c) ==
  LET handler == actions[c.action].handler
  IN  CASE handler.act = "throw" ->
             [c EXCEPT !.pc = "settling", !.pending = Throw(handler.error),
                       !.thrown = Append(@, handler.error)]
        [] handler.act = "echo" ->
             [c EXCEPT !.pc = "settling", !.pending = Value(c.parsedInput)]
        [] handler.act = "hangOn" ->
             IF c.parsedInput = handler.value THEN [c EXCEPT !.pc = "hung"]
             ELSE [c EXCEPT !.pc = "settling", !.pending = Value(c.parsedInput)]
        [] OTHER -> [c EXCEPT !.pc = "settling", !.pending = Value(handler.value)]

\* const result = await middleware({...}); return result: the middleware of
\* the top frame resumes after its next() and settles in its turn
\* middlewareResumes, had the engine called the stage below a second time
\* when it failed
middlewareResumes_retries(c) ==
  LET mw == Top(c).middleware
  IN  CASE c.pending.kind = "throw" /\ ~Top(c).again ->
             next([c EXCEPT !.stack[Len(c.stack)].again = TRUE,
                            !.pending = Value(Undefined)],
                  Top(c), MwParams(mw, Top(c).ctx))
        [] c.pending.kind = "value" /\ mw.post = "drop" ->
             [Pop(c) EXCEPT !.pending = Value(Undefined)]
        [] OTHER -> Pop(c)

\* middlewareResumes, had the first registered middleware been resumed first
middlewareResumes_outermostFirst(c) == [c EXCEPT !.stack = Tail(@)]

\* middlewareResumes, had every middleware returned what next() gave it
middlewareResumes_passes(c) == Pop(c)

middlewareResumes(c) ==
  LET mw == Top(c).middleware
  IN  CASE c.pending.kind = "throw" /\ mw.post = "catch" ->
             [Pop(c) EXCEPT !.pending = Value(mw.value)]
        [] c.pending.kind = "value" /\ mw.post = "drop" ->
             [Pop(c) EXCEPT !.pending = Value(Undefined)]
        [] c.pending.kind = "value" /\ mw.post = "again" /\ ~Top(c).again ->
             next([c EXCEPT !.stack[Len(c.stack)].again = TRUE], Top(c),
                  MwParams(mw, Top(c).ctx))
        [] OTHER -> Pop(c)

\* chainSettled, had the engine run the chain a second time after a throw
chainSettled_retries(c) ==
  IF c.pending.kind = "throw" /\ Len(c.thrown) < 2
  THEN middlewareChain([c EXCEPT !.pending = Value(Undefined)], 0, EmptyObject)
  ELSE IF c.pending.kind = "throw" THEN catchBlock(c, c.pending.error)
  ELSE outputPhase(c, c.pending.value)

\* const handlerResult = await middlewareChain(0, context) and what follows
chainSettled(c) ==
  IF c.pending.kind = "throw" THEN catchBlock(c, c.pending.error)
  ELSE outputPhase(c, c.pending.value)

(***************************************************************************)
(* The program: one client, one builder chain                              *)
(* client.inputSchema(s)[.outputSchema(o)][.metadata(m)][.outputSchema(o)] *)
(* .action(h), and a caller that awaits each invocation before the next.   *)
(* use() and outputSchema() may be called at any moment, also while an     *)
(* invocation is suspended.                                                *)
(***************************************************************************)
InputSchemas == {"Obj"}

OutputSchemas == {"Obj"}

Metadatas == {"meta"}

Init ==
  /\ config \in {MockSafeActionClient(cfg) : cfg \in SuppliedConfigs}
  /\ middlewares = <<>>
  /\ builders = <<>>
  /\ actions = <<>>
  /\ calls = <<>>

\* use, had it replaced the list by the new middleware
use_replaces(middleware) ==
  /\ Len(middlewares) < MaxMiddlewares
  /\ middlewares' = <<middleware>>
  /\ middlewares' # middlewares
  /\ UNCHANGED <<config, builders, actions, calls>>

\* use, had it put the new middleware in front (unshift)
use_prepends(middleware) ==
  /\ Len(middlewares) < MaxMiddlewares
  /\ middlewares' = <<middleware>> \o middlewares
  /\ UNCHANGED <<config, builders, actions, calls>>

\* client.use(middleware)
use(middleware) ==
  /\ Len(middlewares) < MaxMiddlewares
  /\ middlewares' = Append(middlewares, middleware)
  /\ UNCHANGED <<config, builders, actions, calls>>

\* client.inputSchema(schema)
inputSchema(schema) ==
  /\ builders = <<>>
  /\ builders' = Append(builders, SchemaBuilder(schema))
  /\ UNCHANGED <<config, middlewares, actions, calls>>

\* outputSchema, had the builders of one chain shared the output schema
\* (metadata() handing over a reference to the pre-metadata builder's state)
outputSchema_shared(b, schema) ==
  /\ builders[b].outputSchema # schema
  /\ builders' = [k \in DOMAIN builders |->
                    IF builders[k].schema = builders[b].schema
                    THEN [builders[k] EXCEPT !.outputSchema = schema]
                    ELSE builders[k]]
  /\ UNCHANGED <<config, middlewares, actions, calls>>

\* builder.outputSchema(schema): this._outputSchema = schema; return this
outputSchema(b, schema) ==
  /\ builders[b].outputSchema # schema
  /\ builders' = [builders EXCEPT ![b].outputSchema = schema]
  /\ UNCHANGED <<config, middlewares, actions, calls>>

\* schemaBuilder.metadata(value)
metadata(b, value) ==
  /\ Len(builders) = 1
  /\ builders[b].kind = "schema"
  /\ builders' = Append(builders,
                        MetadataBuilder(builders[b].schema, value,
                                        builders[b].outputSchema))
  /\ UNCHANGED <<config, middlewares, actions, calls>>

\* builder.action(handler)
action(b, handler) ==
  /\ actions = <<>>
  /\ actions' = Append(actions, [builder |-> b, handler |-> handler])
  /\ UNCHANGED <<config, middlewares, builders, calls>>

\* await theAction(input), once the previous invocation has returned
Invoke(a, input) ==
  /\ \A i \in DOMAIN calls : calls[i].pc = "done"
  /\ calls' = <<createAction(a, input)>>
  /\ UNCHANGED <<config, middlewares, builders, actions>>

\* MiddlewareRuns, had the chain taken the middlewares off the client's list
\* as it ran them
MiddlewareRuns_consumes(i) ==
  /\ calls[i].pc = "middleware"
  /\ calls' = [calls EXCEPT ![i] = middlewareRuns(calls[i])]
  /\ middlewares' = IF middlewares = <<>> THEN <<>> ELSE Tail(middlewares)
  /\ UNCHANGED <<config, builders, actions>>

MiddlewareRuns(i) ==
  /\ calls[i].pc = "middleware"
  /\ calls' = [calls EXCEPT ![i] = middlewareRuns(calls[i])]
  /\ UNCHANGED <<config, middlewares, builders, actions>>

\* HandlerRuns, had the invocations of a client been queued behind one
\* another: no handler starts while another invocation awaits a stage that
\* has not completed
HandlerRuns_queued(i) ==
  /\ calls[i].pc = "handler"
  /\ \A j \in DOMAIN calls : calls[j].pc # "hung"
  /\ calls' = [calls EXCEPT ![i] = handlerRuns(calls[i])]
  /\ UNCHANGED <<config, middlewares, builders, actions>>

HandlerRuns(i) ==
  /\ calls[i].pc = "handler"
  /\ calls' = [calls EXCEPT ![i] = handlerRuns(calls[i])]
  /\ UNCHANGED <<config, middlewares, builders, actions>>

MiddlewareResumes(i) ==
  /\ calls[i].pc = "settling"
  /\ calls[i].stack # <<>>
  /\ calls' = [calls EXCEPT ![i] = middlewareResumes(calls[i])]
  /\ UNCHANGED <<config, middlewares, builders, actions>>

\* ChainSettled, had a caught error switched the client to production
ChainSettled_marksProduction(i) ==
  /\ calls[i].pc = "settling"
  /\ calls[i].stack = <<>>
  /\ calls' = [calls EXCEPT ![i] = chainSettled(calls[i])]
  /\ config' = IF calls'[i].via = "catch"
               THEN [config EXCEPT !.isProduction = TRUE] ELSE config
  /\ UNCHANGED <<middlewares, builders, actions>>

ChainSettled(i) ==
  /\ calls[i].pc = "settling"
  /\ calls[i].stack = <<>>
  /\ calls' = [calls EXCEPT ![i] = chainSettled(calls[i])]
  /\ UNCHANGED <<config, middlewares, builders, actions>>

Next ==
  \/ \E m \in Middlewares : use(m)
  \/ \E s \in InputSchemas : inputSchema(s)
  \/ \E b \in DOMAIN builders, s \in OutputSchemas : outputSchema(b, s)
  \/ \E b \in DOMAIN builders, m \in Metadatas : metadata(b, m)
  \/ \E b \in DOMAIN builders, h \in Handlers : action(b, h)
  \/ \E a \in DOMAIN actions, input \in Inputs : Invoke(a, input)
  \/ \E i \in DOMAIN calls : MiddlewareRuns(i)
  \/ \E i \in DOMAIN calls : HandlerRuns(i)
  \/ \E i \in DOMAIN calls : MiddlewareResumes(i)
  \/ \E i \in DOMAIN calls : ChainSettled(i)

Spec == Init /\ [][Next]_vars

(***************************************************************************)
(* Properties                                                              *)
(***************************************************************************)
Done(c) == c.pc = "done"

Call(i) == calls[i]

\* what schema.parse answers for the input of invocation c
InputParse(c) == Parse(builders[actions[c.action].builder].schema, c.input)

\* {...a, ...b}, written out
ShallowMerge(a, b) ==
  [k \in DOMAIN a \cup DOMAIN b |-> IF k \in DOMAIN b THEN b[k] ELSE a[k]]

\* the keys an issue list is reported under
PathKeys(issues) == {join(issues[k].path) : k \in DOMAIN issues}

\* C1: an invocation whose input fails the input schema returns an envelope
\* with only fieldErrors, a non-empty mapping, and enters no middleware and
\* no handler.
C1_InputFailureOnlyFieldErrors ==
  \A i \in DOMAIN calls :
    InputParse(Call(i)).kind = "zod"
      => /\ Done(Call(i))
         /\ DOMAIN Call(i).result = {"fieldErrors"}
         /\ DOMAIN Call(i).result.fieldErrors # {}
         /\ Call(i).log = <<>>

\* C2: the stages are entered in registration order, one at a time: the
\* k-th stage entered is the k-th registered middleware, the handler is
\* entered last and only after every middleware before it, and an invocation
\* whose entered middlewares all call next ends with the handler.
C2_RegistrationOrder ==
  \A i \in DOMAIN calls :
    LET log == Call(i).log
    IN  /\ \A k \in DOMAIN log :
             /\ log[k].index = k - 1
             /\ log[k].stage = "middleware"
                  => /\ k <= Len(middlewares)
                     /\ log[k].name = middlewares[k].name
             /\ log[k].stage = "handler" => k = Len(log)
             /\ k < Len(log) => /\ log[k].stage = "middleware"
                                /\ middlewares[k].pre = "next"
        /\ Len(Call(i).stack) <= Len(log)
        /\ (Done(Call(i)) /\ log # <<>> /\ log[Len(log)].stage = "middleware")
             => middlewares[Len(log)].pre # "next"

C2_Witness ==
  \E i \in DOMAIN calls :
    /\ Done(Call(i))
    /\ Len(Call(i).log) = 3
    /\ Call(i).log[1].name = "step1"
    /\ Call(i).log[2].name = "step2"
    /\ Call(i).log[3].stage = "handler"

RECURSIVE ExpectedCtx(_, _)
\* the merge, from the empty context, of the patches the first n stages of
\* log passed to next
ExpectedCtx(log, n) ==
  IF n = 0 THEN EmptyObject
  ELSE LET before == ExpectedCtx(log, n - 1)
           params == MwParams(middlewares[n], before)
       IN  IF "ctx" \in DOMAIN params THEN ShallowMerge(before, params.ctx)
           ELSE before

\* C3: the context a stage receives is the left-to-right shallow merge, from
\* the empty context, of the patches the middlewares before it passed to
\* next; a patch field overwrites, no patch leaves the context unchanged.
C3_ContextIsMergeOfPatches ==
  \A i \in DOMAIN calls :
    \A k \in DOMAIN Call(i).log :
      Call(i).log[k].ctx = ExpectedCtx(Call(i).log, k - 1)

C3_Witness ==
  \E i \in DOMAIN calls :
    \E k \in DOMAIN Call(i).log :
      /\ Call(i).log[k].stage = "handler"
      /\ k = 3
      /\ Call(i).log[1].name = "step1"
      /\ Call(i).log[2].name = "step2"
      /\ Call(i).log[2].ctx = [step1 |-> "done"]
      /\ Call(i).log[k].ctx = [step1 |-> "redone", step2 |-> "done"]

\* the error an invocation's first throwing stage threw has no catching
\* middleware among the stages that enclose it
Uncaught(c) ==
  /\ c.thrown # <<>>
  /\ \A k \in 1..(Len(c.log) - 1) : middlewares[k].post # "catch"

\* the serverError the configuration prescribes for error e
ExpectedServerError(e) ==
  IF config.isProduction THEN config.defaultServerError
  ELSE IF e.message # "" THEN e.message
  ELSE config.defaultServerError

\* C4 as stated: whenever a middleware or the handler has thrown, the
\* envelope is serverError with the thrown message (the default message in
\* production or when the error has no message), and nothing else.
C4_ThrowYieldsServerError ==
  \A i \in DOMAIN calls :
    (Done(Call(i)) /\ Call(i).thrown # <<>>)
      => Call(i).result = [serverError |-> ExpectedServerError(Call(i).thrown[1])]

\* C4 amended: the same for an error that no enclosing middleware catches.
C4_UncaughtThrowYieldsServerError ==
  \A i \in DOMAIN calls :
    (Done(Call(i)) /\ Uncaught(Call(i)))
      => Call(i).result = [serverError |-> ExpectedServerError(Call(i).thrown[1])]

C4_Witness ==
  \E i \in DOMAIN calls :
    /\ Done(Call(i))
    /\ Uncaught(Call(i))
    /\ Len(Call(i).log) = 2
    /\ Call(i).log[1].name = "step1"
    /\ Call(i).log[2].name = "throw"
    /\ ~config.isProduction
    /\ Call(i).result = [serverError |-> "Middleware failed"]

\* C5: in production the envelope returned for an error the action caught is
\* {serverError: defaultServerError} whatever the error, so the message of
\* the error is not in the result.
C5_ProductionHidesError ==
  \A i \in DOMAIN calls :
    (config.isProduction /\ Done(Call(i)) /\ Call(i).via = "catch")
      => /\ Call(i).result = [serverError |-> config.defaultServerError]
         /\ Call(i).result.serverError # Call(i).caught.message

C5_Witness ==
  \E i \in DOMAIN calls :
    /\ config.isProduction
    /\ Done(Call(i))
    /\ Call(i).thrown = <<Err("Error", "Handler error")>>
    /\ Call(i).caught = Err("Error", "Handler error")
    /\ Call(i).result = [serverError |-> "Custom error"]

\* C6: the promise an action returns never rejects: when it settles it
\* resolves with a result envelope, also when the schema, a middleware or
\* the handler throws.
C6_NeverRejects ==
  \A i \in DOMAIN calls :
    /\ Call(i).settled # "rejected"
    /\ Done(Call(i)) <=> Call(i).settled = "resolved"
    /\ Done(Call(i)) => DOMAIN Call(i).result \subseteq Slots

C6_Witness ==
  \E i \in DOMAIN calls :
    /\ Done(Call(i))
    /\ Call(i).settled = "resolved"
    /\ Call(i).input = "boom"
    /\ Call(i).caught = Err("Error", "Schema exploded")
    /\ Call(i).log = <<>>

\* the invocation passed input validation, its chain produced a value and
\* the output schema, if one was registered, accepted it
Succeeded(c) ==
  /\ Done(c)
  /\ InputParse(c).kind = "ok"
  /\ c.pending.kind = "value"
  /\ c.outSchema # Undefined => Parse(c.outSchema, c.chainResult).kind = "ok"

\* the value a successful invocation wraps
FinalValue(c) ==
  IF c.outSchema = Undefined THEN c.chainResult
  ELSE Parse(c.outSchema, c.chainResult).data

\* C7 as stated: every returned envelope has exactly one of the four slots.
C7_ExactlyOneSlot ==
  \A i \in DOMAIN calls :
    Done(Call(i)) => Cardinality(DOMAIN Call(i).result \cap Slots) = 1

\* C7 amended: every returned envelope has at most one of the four slots,
\* and has none exactly when the invocation succeeded with the value
\* undefined.
C7_AtMostOneSlot ==
  \A i \in DOMAIN calls :
    Done(Call(i))
      => /\ DOMAIN Call(i).result \subseteq Slots
         /\ Cardinality(DOMAIN Call(i).result) <= 1
         /\ DOMAIN Call(i).result = {}
              <=> (Succeeded(Call(i)) /\ FinalValue(Call(i)) = Undefined)

C7_Witness ==
  \E i \in DOMAIN calls :
    /\ Done(Call(i))
    /\ Call(i).outSchema = "Obj"
    /\ Call(i).chainResult = "bad_nested"
    /\ DOMAIN Call(i).result = {"validationErrors"}

\* C8 as stated: for every valid input the envelope has data and no other
\* slot.
C8_ValidInputYieldsData ==
  \A i \in DOMAIN calls :
    (Done(Call(i)) /\ InputParse(Call(i)).kind = "ok")
      => DOMAIN Call(i).result = {"data"}

\* C8 amended: for every valid input whose chain produces a value that the
\* output schema (if any) accepts, the envelope has no serverError,
\* fieldErrors or validationErrors, and has data unless the value is
\* undefined.
C8_SuccessYieldsData ==
  \A i \in DOMAIN calls :
    Succeeded(Call(i))
      => /\ DOMAIN Call(i).result \subseteq {"data"}
         /\ FinalValue(Call(i)) # Undefined => "data" \in DOMAIN Call(i).result

C8_Witness ==
  \E i \in DOMAIN calls :
    /\ Succeeded(Call(i))
    /\ Call(i).input = "v_extra"
    /\ Call(i).outSchema = "Obj"
    /\ Len(Call(i).log) = 2
    /\ Call(i).result = [data |-> "v"]

\* C9: when an output schema is registered and the value the chain produced
\* fails it, the envelope has only validationErrors, whose keys are the
\* issue paths joined with '.'.
C9_OutputFailureOnlyValidationErrors ==
  \A i \in DOMAIN calls :
    ( /\ Done(Call(i))
      /\ InputParse(Call(i)).kind = "ok"
      /\ Call(i).pending.kind = "value"
      /\ Call(i).outSchema # Undefined
      /\ Parse(Call(i).outSchema, Call(i).chainResult).kind = "zod" )
      => /\ DOMAIN Call(i).result = {"validationErrors"}
         /\ DOMAIN Call(i).result.validationErrors
              = PathKeys(Parse(Call(i).outSchema, Call(i).chainResult).issues)

\* C10: with an output schema that accepts the value the chain produced, data
\* is the value the schema parsed it to, not the raw value; with no output
\* schema, data is the raw value.
C10_DataIsValidatedValue ==
  \A i \in DOMAIN calls :
    (Succeeded(Call(i)) /\ FinalValue(Call(i)) # Undefined)
      => IF Call(i).outSchema # Undefined
         THEN Call(i).result.data = Parse(Call(i).outSchema, Call(i).chainResult).data
         ELSE Call(i).result.data = Call(i).chainResult

C10_Witness ==
  \E i \in DOMAIN calls :
    /\ Succeeded(Call(i))
    /\ Call(i).outSchema = "Obj"
    /\ Call(i).chainResult = "v_extra"
    /\ Call(i).result = [data |-> "v"]

(***************************************************************************)
(* Several builder chains on one client.  Every builder and every action   *)
(* ever created is kept, so that chains written in different orders can be *)
(* compared; nothing is invoked.                                           *)
(***************************************************************************)
MaxBuilders == 3

MaxActions == 2

BuildMiddlewares == {mwStep1}

BuildHandlers ==
  { Handler("extra", "return", "v_extra", NoError),
    Handler("bad", "return", "bad_nested", NoError) }

\* createMockSafeActionClient(), nothing registered and nothing built
InitBuild ==
  /\ config = MockSafeActionClient(EmptyObject)
  /\ middlewares = <<>>
  /\ builders = <<>>
  /\ actions = <<>>
  /\ calls = <<>>

\* client.inputSchema(schema), once more
StartChain(schema) ==
  /\ Len(builders) < MaxBuilders
  /\ builders' = Append(builders, SchemaBuilder(schema))
  /\ UNCHANGED <<config, middlewares, actions, calls>>

\* schemaBuilder.metadata(value), on any schema builder
AddMetadata(b, value) ==
  /\ Len(builders) < MaxBuilders
  /\ builders[b].kind = "schema"
  /\ builders' = Append(builders,
                        MetadataBuilder(builders[b].schema, value,
                                        builders[b].outputSchema))
  /\ UNCHANGED <<config, middlewares, actions, calls>>

\* Build, had action(handler) called the handler once while building
Build_eager(b, handler) ==
  /\ Len(actions) < MaxActions
  /\ actions' = Append(actions, [builder |-> b, handler |-> handler])
  /\ calls' = Append(calls, [NewCall(Len(actions) + 1, Undefined)
                               EXCEPT !.pc = "handler"])
  /\ UNCHANGED <<config, middlewares, builders>>

\* builder.action(handler), on any builder
Build(b, handler) ==
  /\ Len(actions) < MaxActions
  /\ actions' = Append(actions, [builder |-> b, handler |-> handler])
  /\ UNCHANGED <<config, middlewares, builders, calls>>

NextBuild ==
  \/ \E m \in BuildMiddlewares : use(m)
  \/ \E s \in InputSchemas : StartChain(s)
  \/ \E b \in DOMAIN builders, s \in OutputSchemas : outputSchema(b, s)
  \/ \E b \in DOMAIN builders, m \in Metadatas : AddMetadata(b, m)
  \/ \E b \in DOMAIN builders, h \in BuildHandlers : Build(b, h)

SpecBuild == InitBuild /\ [][NextBuild]_vars

\* one step of an invocation, whichever it is
stepCall(c) ==
  CASE c.pc = "middleware" -> middlewareRuns(c)
    [] c.pc = "handler" -> handlerRuns(c)
    [] c.pc = "settling" /\ c.stack # <<>> -> middlewareResumes(c)
    [] c.pc = "settling" /\ c.stack = <<>> -> chainSettled(c)
    [] OTHER -> c

RECURSIVE runToEnd(_)
runToEnd(c) == IF c.pc = "done" THEN c ELSE runToEnd(stepCall(c))

\* await theAction(input), with nothing else running meanwhile
Await(a, input) == runToEnd(createAction(a, input))

\* the builder action a was made from
BuilderOf(a) == builders[actions[a].builder]

\* inputSchema(s).outputSchema(o).metadata(m): the metadata builder was
\* handed o by the schema builder and outputSchema was not called on it
OutputThenMetadata(b, o) ==
  b.kind = "metadata" /\ b.given = o /\ o # Undefined

\* inputSchema(s).metadata(m).outputSchema(o): the metadata builder was
\* handed no output schema and got o from its own outputSchema(o)
MetadataThenOutput(b, o) ==
  b.kind = "metadata" /\ b.given = Undefined /\ b.outputSchema = o

\* C11: outputSchema and metadata may be given in either order: the action
\* of inputSchema(s).outputSchema(o).metadata(m).action(h) and the action of
\* inputSchema(s).metadata(m).outputSchema(o).action(h) return the same
\* envelope for every input, enter the same stages with the same arguments
\* and validate the same output against the same schema.
C11_OrderIndependent ==
  \A a1, a2 \in DOMAIN actions, o \in OutputSchemas :
    ( /\ OutputThenMetadata(BuilderOf(a1), o)
      /\ MetadataThenOutput(BuilderOf(a2), o)
      /\ BuilderOf(a1).schema = BuilderOf(a2).schema
      /\ BuilderOf(a1).metadata = BuilderOf(a2).metadata
      /\ actions[a1].handler = actions[a2].handler )
      => \A x \in Inputs :
           /\ Await(a1, x).result = Await(a2, x).result
           /\ Await(a1, x).log = Await(a2, x).log
           /\ Await(a1, x).chainResult = Await(a2, x).chainResult
           /\ Await(a1, x).outSchema = Await(a2, x).outSchema

C11_Witness ==
  \E a1, a2 \in DOMAIN actions :
    /\ OutputThenMetadata(BuilderOf(a1), "Obj")
    /\ MetadataThenOutput(BuilderOf(a2), "Obj")
    /\ actions[a1].handler = actions[a2].handler
    /\ middlewares # <<>>
    /\ Await(a1, "v_extra").result = [data |-> "v"]
    /\ Await(a2, "v_extra").result = [data |-> "v"]
    /\ Await(a2, "v_extra").outSchema = "Obj"
    /\ Await(a2, "v_extra").log[1].metadata = "meta"

\* the k-th registered middleware returns a value without calling next
ShortCircuits(k) == middlewares[k].pre = "return"

\* the middlewares registered before the k-th all return what their next()
\* returned
EnclosingPass(k) == \A j \in 1..(k - 1) : middlewares[j].post \in {"pass", "catch"}

\* C12 as stated: once a middleware has returned without calling next, no
\* later middleware and not the handler is entered in that invocation, and
\* the value it returned is the chain's result, the one output validation
\* and wrapping receive.
C12_ShortCircuit ==
  \A i \in DOMAIN calls : \A k \in DOMAIN Call(i).log :
    (Call(i).log[k].stage = "middleware" /\ ShortCircuits(k))
      => /\ k = Len(Call(i).log)
         /\ Done(Call(i)) => Call(i).chainResult = middlewares[k].value

\* C12, amended: no later stage is entered, and the value is the chain's
\* result when every enclosing middleware returns the result of its next().
C12_ShortCircuitThroughPassing ==
  \A i \in DOMAIN calls : \A k \in DOMAIN Call(i).log :
    (Call(i).log[k].stage = "middleware" /\ ShortCircuits(k))
      => /\ k = Len(Call(i).log)
         /\ (Done(Call(i)) /\ EnclosingPass(k))
              => Call(i).chainResult = middlewares[k].value

C12_Witness ==
  \E i \in DOMAIN calls :
    /\ Done(Call(i))
    /\ Len(middlewares) = 2
    /\ ShortCircuits(1)
    /\ Len(Call(i).log) = 1
    /\ Call(i).chainResult = "bad_proto"
    /\ Call(i).outSchema = Undefined
    /\ Call(i).result = [data |-> "bad_proto"]

(***************************************************************************)
(* Concurrent invocations: one client, one action, callers that do not     *)
(* await: an invocation may start while others are suspended, and use()    *)
(* may be called at any moment.  Every invocation is kept.                 *)
(***************************************************************************)
MaxCalls == 2

ConcMiddlewares == {mwStep1, mwStep2}

ConcHandlers == {Handler("echo", "echo", Undefined, NoError)}

ConcInputs == {"v_extra", "bad"}

\* theAction(input), not awaited
Start(a, input) ==
  /\ Len(calls) < MaxCalls
  /\ calls' = Append(calls, createAction(a, input))
  /\ UNCHANGED <<config, middlewares, builders, actions>>

NextConc ==
  \/ \E m \in ConcMiddlewares : use(m)
  \/ \E s \in InputSchemas : inputSchema(s)
  \/ \E b \in DOMAIN builders, h \in ConcHandlers : action(b, h)
  \/ \E a \in DOMAIN actions, input \in ConcInputs : Start(a, input)
  \/ \E i \in DOMAIN calls : MiddlewareRuns(i)
  \/ \E i \in DOMAIN calls : HandlerRuns(i)
  \/ \E i \in DOMAIN calls : MiddlewareResumes(i)
  \/ \E i \in DOMAIN calls : ChainSettled(i)

SpecConc == InitBuild /\ [][NextConc]_vars

\* the stage invocation i enters in this step, if it enters one
Entered(i) ==
  IF i \in DOMAIN calls
  THEN SubSeq(calls'[i].log, Len(calls[i].log) + 1, Len(calls'[i].log))
  ELSE calls'[i].log

\* the stage entered is the one the registry, as it is now, has at that index
ReadsLiveList(entry) ==
  IF entry.stage = "handler" THEN entry.index >= Len(middlewares)
  ELSE /\ entry.index < Len(middlewares)
       /\ entry.name = middlewares[entry.index + 1].name

\* C13: use(middleware) appends the middleware at the end of the client's
\* list and leaves every existing entry, their order and the client itself
\* as they were; every stage an invocation enters, also of an action built
\* before the use() call, is read from the list as it is at that moment, so
\* an invocation started after the call begins with the updated list.
C13_UseAppendsToLiveList ==
  [][ /\ middlewares' # middlewares
        => /\ \E m \in Middlewares : middlewares' = Append(middlewares, m)
           /\ UNCHANGED <<config, builders, actions, calls>>
      /\ \A i \in DOMAIN calls' : \A k \in DOMAIN Entered(i) :
           /\ ReadsLiveList(Entered(i)[k])
           /\ (i \notin DOMAIN calls /\ middlewares # <<>>)
                => calls'[i].log[1].name = middlewares[1].name
    ]_vars

\* the action ran with an empty list (it was built before any use()), then
\* two middlewares were registered, then it was invoked again
C13_Witness ==
  /\ Len(calls) = 2
  /\ calls[1].action = calls[2].action
  /\ Done(calls[1]) /\ Len(calls[1].log) = 1 /\ calls[1].log[1].stage = "handler"
  /\ Done(calls[2]) /\ Len(calls[2].log) = 3
  /\ calls[2].log[1].name = middlewares[1].name
  /\ calls[2].log[2].name = middlewares[2].name
  /\ calls[2].log[3].stage = "handler"

\* C14: a builder call leaves every existing builder as it was (each stage
\* returns a new builder), and so the configuration of every action already
\* produced: its builder's input schema, output schema and metadata are
\* frozen once action(handler) has been called.
C14_BuildersImmutable ==
  [][ /\ \A b \in DOMAIN builders : builders'[b] = builders[b]
      /\ \A a \in DOMAIN actions :
           /\ actions'[a] = actions[a]
           /\ builders'[actions'[a].builder] = builders[actions[a].builder]
    ]_vars

\* the invocation has started and not returned
InFlight(c) == c.pc # "done"

\* C15: the invocations of an action are independent, however they
\* interleave: each starts at chain index 0 with an empty context and counts
\* its own stages, and every key of the context a stage of an invocation
\* sees was put there, with that value, by a middleware entered earlier in
\* that same invocation.
C15_InvocationsIndependent ==
  \A i \in DOMAIN calls : \A k \in DOMAIN Call(i).log :
    LET entry == Call(i).log[k]
    IN  /\ entry.index = k - 1
        /\ k = 1 => entry.ctx = EmptyObject
        /\ \A key \in DOMAIN entry.ctx :
             \E j \in 1..(k - 1) :
               /\ Call(i).log[j].name = middlewares[j].name
               /\ key \in DOMAIN middlewares[j].patch
               /\ entry.ctx[key] = middlewares[j].patch[key]

\* two invocations suspended at the same time, at different stages and with
\* different contexts
C15_Witness ==
  /\ Len(calls) = 2
  /\ InFlight(calls[1]) /\ InFlight(calls[2])
  /\ calls[1].pc = "handler"
  /\ Len(calls[1].log) = 3
  /\ calls[1].log[3].ctx = [step1 |-> "redone", step2 |-> "done"]
  /\ calls[2].pc = "middleware"
  /\ Len(calls[2].log) = 2
  /\ calls[2].log[2].ctx = [step1 |-> "done"]

\* C16 as stated: while an invocation is in flight, no step changes the
\* middleware list or the config.
C16_NeverMutatedMidInvocation ==
  [][ (\E i \in DOMAIN calls : InFlight(Call(i)))
        => middlewares' = middlewares /\ config' = config ]_vars

\* C16, amended: no step changes the config or the entries the middleware
\* list already has; in flight or not, the list only grows at its end.
C16_OnlyAppendedMidInvocation ==
  [][ /\ config' = config
      /\ Len(middlewares') >= Len(middlewares)
      /\ SubSeq(middlewares', 1, Len(middlewares)) = middlewares ]_vars

\* an invocation entered the handler when the list was empty, has not
\* returned, and the list has two middlewares now
C16_Witness ==
  \E i \in DOMAIN calls :
    /\ InFlight(Call(i))
    /\ Call(i).pc = "handler"
    /\ Len(Call(i).log) = 1
    /\ Len(middlewares) = 2

(***************************************************************************)
(* Middlewares that call next more than once: one client, one action,      *)
(* awaited invocations, and among the middlewares one that calls next      *)
(* twice.                                                                  *)
(***************************************************************************)
AgainMiddlewares == {mwStep1, mwTwice, mwCatch, mwThrow}

AgainHandlers ==
  { Handler("echo", "echo", Undefined, NoError),
    Handler("throw", "throw", Undefined, Err("Error", "Handler error")) }

AgainInputs == {"v_extra", "bad"}

NextAgain ==
  \/ \E m \in AgainMiddlewares : use(m)
  \/ \E s \in InputSchemas : inputSchema(s)
  \/ \E b \in DOMAIN builders, h \in AgainHandlers : action(b, h)
  \/ \E a \in DOMAIN actions, input \in AgainInputs : Invoke(a, input)
  \/ \E i \in DOMAIN calls : MiddlewareRuns(i)
  \/ \E i \in DOMAIN calls : HandlerRuns(i)
  \/ \E i \in DOMAIN calls : MiddlewareResumes(i)
  \/ \E i \in DOMAIN calls : ChainSettled(i)

SpecAgain == InitBuild /\ [][NextAgain]_vars

\* no stage is entered twice in invocation c
EnteredOnce(c) ==
  \A j, k \in DOMAIN c.log : j # k => c.log[j].index # c.log[k].index

\* no stage of invocation c is running or about to run
NoStageRunning(c) == c.pc \in {"settling", "done"}

\* every registered middleware calls next at most once
NextAtMostOnce == \A k \in DOMAIN middlewares : middlewares[k].post # "again"

\* C17 as stated: in every invocation each registered middleware and the
\* handler are entered at most once, and once a stage has thrown no further
\* stage is entered and the envelope returned is the serverError one.
C17_FailureIsTerminal ==
  \A i \in DOMAIN calls :
    /\ EnteredOnce(Call(i))
    /\ Call(i).thrown # <<>>
         => /\ NoStageRunning(Call(i))
            /\ Done(Call(i)) => DOMAIN Call(i).result = {"serverError"}

\* C17, amended: when every middleware calls next at most once, each stage
\* is entered at most once and no stage is entered once one has thrown; the
\* envelope is the serverError one unless an enclosing middleware caught the
\* error.
C17_NoRetryByTheEngine ==
  \A i \in DOMAIN calls :
    NextAtMostOnce
      => /\ EnteredOnce(Call(i))
         /\ Len(Call(i).thrown) <= 1
         /\ Call(i).thrown # <<>>
              => /\ NoStageRunning(Call(i))
                 /\ (Done(Call(i)) /\ Uncaught(Call(i)))
                      => DOMAIN Call(i).result = {"serverError"}

C17_Witness ==
  \E i \in DOMAIN calls :
    /\ Done(Call(i))
    /\ middlewares = <<mwStep1, mwThrow>>
    /\ Len(Call(i).log) = 2
    /\ Call(i).thrown = <<Err("Error", "Middleware failed")>>
    /\ Call(i).result = [serverError |-> "Middleware failed"]

\* C18: every middleware of every invocation is handed the value that was
\* given to metadata(value), as it was given; the middlewares of an action
\* built without metadata() are handed undefined.
C18_MetadataVerbatim ==
  \A i \in DOMAIN calls : \A k \in DOMAIN Call(i).log :
    Call(i).log[k].stage = "middleware"
      => IF BuilderOf(Call(i).action).kind = "metadata"
         THEN /\ Call(i).log[k].metadata = BuilderOf(Call(i).action).metadata
              /\ Call(i).log[k].metadata \in Metadatas
         ELSE Call(i).log[k].metadata = Undefined

C18_Witness ==
  \E i \in DOMAIN calls :
    /\ Done(Call(i))
    /\ BuilderOf(Call(i).action).kind = "metadata"
    /\ Len(Call(i).log) = 3
    /\ Call(i).log[1].stage = "middleware" /\ Call(i).log[1].metadata = "meta"
    /\ Call(i).log[2].stage = "middleware" /\ Call(i).log[2].metadata = "meta"

\* C19: whenever the handler is entered it is handed, as parsedInput, the
\* value the schema returned for the invocation's input, not the raw input,
\* and, as ctx, the context the middlewares before it accumulated: the empty
\* context when there is none.
C19_HandlerArguments ==
  \A i \in DOMAIN calls : \A k \in DOMAIN Call(i).log :
    Call(i).log[k].stage = "handler"
      => /\ InputParse(Call(i)).kind = "ok"
         /\ Call(i).log[k].parsedInput = InputParse(Call(i)).data
         /\ Call(i).log[k].ctx = ExpectedCtx(Call(i).log, k - 1)
         /\ k = 1 => Call(i).log[k].ctx = EmptyObject

C19_Witness ==
  \E i \in DOMAIN calls :
    /\ Call(i).input = "v_extra"
    /\ Len(Call(i).log) = 2
    /\ Call(i).log[1].name = "step1"
    /\ Call(i).log[2].stage = "handler"
    /\ Call(i).log[2].parsedInput = "v"
    /\ Call(i).log[2].ctx = [step1 |-> "done"]

\* C20: building executes nothing: whatever createClient, use, inputSchema,
\* outputSchema, metadata and action calls are made, no invocation has
\* started, so no middleware, no handler and no schema validation has run.
C20_BuildingRunsNothing == calls = <<>>

C20_Witness ==
  /\ calls = <<>>
  /\ Len(middlewares) = 2
  /\ Len(builders) = 3
  /\ \E b \in DOMAIN builders :
       builders[b].kind = "metadata" /\ builders[b].outputSchema = "Obj"
  /\ Len(actions) = 2

(***************************************************************************)
(* Repeated invocations: a client whose middlewares are registered and     *)
(* whose action is built; from then on the action is only invoked, the     *)
(* invocations overlapping or not.                                         *)
(***************************************************************************)
RepeatMiddlewares == {mwStep1, mwDrop, mwThrow}

RepeatHandlers ==
  { Handler("echo", "echo", Undefined, NoError),
    Handler("throw", "throw", Undefined, Err("Error", "Handler error")) }

\* the sequences over S of length at most n
SeqUpTo(S, n) == UNION {[1..k -> S] : k \in 0..n}

\* createMockSafeActionClient().use(..)...inputSchema(s)[.outputSchema(o)]
\* .action(h), done
InitRepeat ==
  /\ config = MockSafeActionClient(EmptyObject)
  /\ middlewares \in SeqUpTo(RepeatMiddlewares, MaxMiddlewares)
  /\ \E s \in InputSchemas, o \in OutputSchemas \cup {Undefined} :
       builders = <<[SchemaBuilder(s) EXCEPT !.outputSchema = o]>>
  /\ \E h \in RepeatHandlers : actions = <<[builder |-> 1, handler |-> h]>>
  /\ calls = <<>>

NextRepeat ==
  \/ \E a \in DOMAIN actions, input \in ConcInputs : Start(a, input)
  \/ \E i \in DOMAIN calls : MiddlewareRuns(i)
  \/ \E i \in DOMAIN calls : HandlerRuns(i)
  \/ \E i \in DOMAIN calls : MiddlewareResumes(i)
  \/ \E i \in DOMAIN calls : ChainSettled(i)

SpecRepeat == InitRepeat /\ [][NextRepeat]_vars

\* C21: two invocations of the same action with the same input, with
\* nothing but invocations in between, return equal envelopes after
\* entering the same stages with the same arguments: an invocation leaves
\* nothing behind that another one observes.
C21_Idempotent ==
  \A i, j \in DOMAIN calls :
    ( /\ Call(i).action = Call(j).action
      /\ Call(i).input = Call(j).input
      /\ Done(Call(i)) /\ Done(Call(j)) )
      => /\ Call(i).result = Call(j).result
         /\ Call(i).log = Call(j).log
         /\ Call(i).chainResult = Call(j).chainResult
         /\ Call(i).thrown = Call(j).thrown

C21_Witness ==
  /\ Len(calls) = 2
  /\ Done(calls[1]) /\ Done(calls[2])
  /\ calls[1].input = "v_extra" /\ calls[2].input = "v_extra"
  /\ Len(middlewares) = 2
  /\ Len(calls[1].log) = 3 /\ calls[2].log = calls[1].log
  /\ calls[1].result = [data |-> "v"] /\ calls[2].result = [data |-> "v"]

\* C22: validationErrors is reachable only with an output schema: an
\* invocation of an action whose builder has no output schema never returns
\* an envelope with validationErrors.
C22_ValidationErrorsNeedOutputSchema ==
  \A i \in DOMAIN calls :
    (Done(Call(i)) /\ "validationErrors" \in DOMAIN Call(i).result)
      => /\ BuilderOf(Call(i).action).outputSchema # Undefined
         /\ Call(i).outSchema # Undefined
         /\ Call(i).via = "output"

\* the handler returns what no output schema of the model accepts, none is
\* registered, and the value comes back as data
C22_Witness ==
  \E i \in DOMAIN calls :
    /\ Done(Call(i))
    /\ BuilderOf(Call(i).action).outputSchema = Undefined
    /\ Call(i).chainResult = "bad_nested"
    /\ Parse("Obj", Call(i).chainResult).kind = "zod"
    /\ Call(i).result = [data |-> "bad_nested"]

\* what the output schema answered for the value invocation c validated
OutputParse(c) == Parse(c.outSchema, c.chainResult)

\* C23: a validation failure the schema reports as issues is never routed
\* through the error handler (the envelope has fieldErrors, or
\* validationErrors for an output, and no serverError), and any other error
\* the schema raises during input or output validation yields serverError
\* and neither fieldErrors nor validationErrors.
C23_ValidationVersusRuntimeErrors ==
  \A i \in DOMAIN calls :
    Done(Call(i))
      => /\ InputParse(Call(i)).kind = "zod"
              => /\ "fieldErrors" \in DOMAIN Call(i).result
                 /\ "serverError" \notin DOMAIN Call(i).result
         /\ InputParse(Call(i)).kind = "throw"
              => DOMAIN Call(i).result = {"serverError"}
         /\ (Call(i).outSchema # Undefined /\ OutputParse(Call(i)).kind = "zod")
              => /\ "validationErrors" \in DOMAIN Call(i).result
                 /\ "serverError" \notin DOMAIN Call(i).result
         /\ (Call(i).outSchema # Undefined /\ OutputParse(Call(i)).kind = "throw")
              => DOMAIN Call(i).result = {"serverError"}

\* the messages, in issue order, of the issues whose joined path is key
MessagesAt(issues, key) ==
  LET at(issue) == join(issue.path) = key
      chosen == SelectSeq(issues, at)
  IN  [k \in 1..Len(chosen) |-> chosen[k].message]

\* the mapping the claim describes: one key per distinct joined path, and
\* under it every message of that path
ExpectedMapping(issues) ==
  [key \in PathKeys(issues) |-> MessagesAt(issues, key)]

\* C24: the mapping built from a validation failure has, for each issue,
\* the key made of the issue's path segments joined with '.', and under each
\* key the messages of all the issues of that path in their order; no issue
\* is dropped, and input and output failures are mapped the same way.
C24_ErrorMapping ==
  \A i \in DOMAIN calls :
    Done(Call(i))
      => /\ InputParse(Call(i)).kind = "zod"
              => /\ "fieldErrors" \in DOMAIN Call(i).result
                 /\ Call(i).result.fieldErrors
                      = ExpectedMapping(InputParse(Call(i)).issues)
         /\ (Call(i).outSchema # Undefined /\ OutputParse(Call(i)).kind = "zod")
              => /\ "validationErrors" \in DOMAIN Call(i).result
                 /\ Call(i).result.validationErrors
                      = ExpectedMapping(OutputParse(Call(i)).issues)

(***************************************************************************)
(* Construction: createMockSafeActionClient(config) for every config of a  *)
(* small universe in which each field is omitted, empty or set.            *)
(***************************************************************************)
\* a field that is omitted or has one of values
Optional(key, values) == {EmptyObject} \cup {key :> v : v \in values}

SuppliedAuths ==
  { e @@ u @@ m @@ t :
      e \in Optional("enabled", BOOLEAN),
      u \in Optional("testUserId", {"", "custom-user-id", "other-user-id"}),
      m \in Optional("testUserEmail", {"", "custom@example.com"}),
      t \in Optional("testAuthToken", {"", "custom-token"}) }

ConstructConfigs ==
  { d @@ p @@ a :
      d \in Optional("defaultServerError", {"", "Custom error", "Middleware error"}),
      p \in Optional("isProduction", BOOLEAN),
      a \in Optional("auth", SuppliedAuths) }

\* createMockSafeActionClient(cfg): a new client, nothing registered
createMockSafeActionClient(cfg) ==
  /\ config' = MockSafeActionClient(cfg)
  /\ middlewares' = <<>>
  /\ UNCHANGED <<builders, actions, calls>>

NextConstruct == \E cfg \in ConstructConfigs : createMockSafeActionClient(cfg)

SpecConstruct == InitBuild /\ [][NextConstruct]_vars

\* the documented defaults
DefaultConfig ==
  [defaultServerError |-> "Something went wrong", isProduction |-> FALSE,
   auth |-> [enabled |-> TRUE, testUserId |-> "test-user-id",
             testUserEmail |-> "test@example.com",
             testAuthToken |-> "test-token"]]

\* the auth object a config supplies, {} when it supplies none
AuthOf(cfg) == IF "auth" \in DOMAIN cfg THEN cfg.auth ELSE EmptyObject

\* field key of the client's object is the supplied one, the default one
\* when the caller omitted it
SuppliedOverDefault(object, supplied, defaults, key) ==
  object[key] = IF key \in DOMAIN supplied THEN supplied[key] ELSE defaults[key]

\* the same, an empty string counting as omitted
NonEmptyOverDefault(object, supplied, defaults, key) ==
  object[key] = IF key \in DOMAIN supplied /\ supplied[key] # ""
                THEN supplied[key] ELSE defaults[key]

\* C25 as stated: the client's configuration has the supplied value of
\* every field the caller supplied and the documented default of every
\* field the caller omitted.
C25_SuppliedOverDefaults ==
  \A cfg \in ConstructConfigs :
    config = MockSafeActionClient(cfg)
      => /\ \A key \in {"defaultServerError", "isProduction"} :
              SuppliedOverDefault(config, cfg, DefaultConfig, key)
         /\ \A key \in DOMAIN DefaultConfig.auth :
              SuppliedOverDefault(config.auth, AuthOf(cfg), DefaultConfig.auth, key)

\* C25, amended: as stated, except that an empty string supplied for
\* defaultServerError, testUserId, testUserEmail or testAuthToken counts as
\* omitted.
C25_NonEmptySuppliedOverDefaults ==
  \A cfg \in ConstructConfigs :
    config = MockSafeActionClient(cfg)
      => /\ DOMAIN config = DOMAIN DefaultConfig
         /\ DOMAIN config.auth = DOMAIN DefaultConfig.auth
         /\ NonEmptyOverDefault(config, cfg, DefaultConfig, "defaultServerError")
         /\ SuppliedOverDefault(config, cfg, DefaultConfig, "isProduction")
         /\ SuppliedOverDefault(config.auth, AuthOf(cfg), DefaultConfig.auth, "enabled")
         /\ \A key \in {"testUserId", "testUserEmail", "testAuthToken"} :
              NonEmptyOverDefault(config.auth, AuthOf(cfg), DefaultConfig.auth, key)

\* isProduction: false and auth.enabled: false were supplied and kept, the
\* other fields are a mix of supplied values and defaults
C25_Witness ==
  config = [defaultServerError |-> "Custom error", isProduction |-> FALSE,
            auth |-> [enabled |-> FALSE, testUserId |-> "custom-user-id",
                      testUserEmail |-> "test@example.com",
                      testAuthToken |-> "custom-token"]]

\* C26: no step (use, inputSchema, outputSchema, metadata, action, the start
\* or any step of an invocation, successful or failing) changes the client
\* configuration, and every invocation that ends in the catch block returns
\* what handleError gives for the configuration the client was created with.
C26_ConfigImmutable ==
  [][ /\ config' = config
      /\ \A i \in DOMAIN calls' :
           Done(calls'[i]) /\ calls'[i].via = "catch"
             => calls'[i].result = handleError(calls'[i].caught, config) ]_vars

\* a client created with a custom message in production mode, after two
\* use() calls and a builder chain: a failing invocation returned the
\* custom message
C26_Witness ==
  /\ config.defaultServerError = "Custom error"
  /\ config.isProduction
  /\ ~config.auth.enabled
  /\ Len(middlewares) = 2
  /\ Len(builders) >= 2
  /\ \E i \in DOMAIN calls :
       /\ Done(Call(i))
       /\ Call(i).via = "catch"
       /\ Call(i).caught.message # ""
       /\ Call(i).result = [serverError |-> "Custom error"]

(***************************************************************************)
(* Stages that never complete: a middleware that awaits a promise nobody   *)
(* resolves, and a handler that does so for one input.  The event loop     *)
(* runs every continuation that is ready, which is the fairness assumed.   *)
(***************************************************************************)
\* async () => new Promise(() => {})
mwHang == Mw("hang", "hang", FALSE, FALSE, EmptyObject, "pass", Undefined, NoError)

HangMiddlewares == {mwStep1, mwHang}

\* async ({parsedInput}) => parsedInput === "wait" ? new Promise(() => {}) : parsedInput
HangHandlers == {Handler("hangOn", "hangOn", "wait", NoError)}

HangInputs == {"v", "wait"}

NextHang ==
  \/ \E m \in HangMiddlewares : use(m)
  \/ \E s \in {"Any"} : inputSchema(s)
  \/ \E b \in DOMAIN builders, h \in HangHandlers : action(b, h)
  \/ \E a \in DOMAIN actions, input \in HangInputs : Start(a, input)
  \/ \E i \in DOMAIN calls : MiddlewareRuns(i)
  \/ \E i \in DOMAIN calls : HandlerRuns(i)
  \/ \E i \in DOMAIN calls : MiddlewareResumes(i)
  \/ \E i \in DOMAIN calls : ChainSettled(i)

\* a continuation of invocation i runs
Continues(i) ==
  /\ i \in DOMAIN calls
  /\ \/ MiddlewareRuns(i)
     \/ HandlerRuns(i)
     \/ MiddlewareResumes(i)
     \/ ChainSettled(i)

SpecHang ==
  /\ InitBuild
  /\ [][NextHang]_vars
  /\ \A i \in 1..MaxCalls : WF_vars(Continues(i))

\* the invocation awaits a stage that never completes
Hung(c) == c.pc = "hung"

\* C27: an invocation that awaits a middleware or handler that never
\* completes stays as it is forever, its promise pending and no envelope
\* returned (nothing times out, cancels or retries it); and every
\* invocation, whatever other invocations of the same action are hung,
\* goes on until it has returned or awaits a never-completing stage of its
\* own.
C27_HungForeverAndAlone ==
  /\ [][\A i \in DOMAIN calls : Hung(calls[i]) => calls'[i] = calls[i]]_vars
  /\ [](\A i \in DOMAIN calls :
          Hung(calls[i]) => /\ calls[i].settled = "pending"
                            /\ calls[i].result = EmptyObject
                            /\ calls[i].via = "")
  /\ \A i \in 1..MaxCalls :
       (i \in DOMAIN calls)
         ~> (i \in DOMAIN calls /\ (Done(calls[i]) \/ Hung(calls[i])))

\* the first invocation hangs in the handler; the second, of the same
\* action and started later, has run the same middleware and handler and
\* returned its data
C27_Witness ==
  /\ Len(calls) = 2
  /\ calls[1].action = calls[2].action
  /\ Hung(calls[1])
  /\ Len(calls[1].log) = 2
  /\ calls[1].log[2].stage = "handler"
  /\ Done(calls[2])
  /\ Len(calls[2].log) = 2
  /\ calls[2].result = [data |-> "v"]

(***************************************************************************)
(* What a chain returns, computed from the stages it entered.              *)
(***************************************************************************)
\* the middleware function registered under a name
MiddlewareNamed(name) == CHOOSE mw \in Middlewares : mw.name = name

\* what the handler of invocation c settles with
HandlerReturns(c) ==
  LET handler == actions[c.action].handler
  IN  CASE handler.act = "throw" -> Throw(handler.error)
        [] handler.act = "echo" -> Value(c.parsedInput)
        [] OTHER -> Value(handler.value)

\* what the k-th stage invocation c entered settles with, given what the
\* stage below it (the next one entered) settles with
RECURSIVE StageReturns(_, _)
StageReturns(c, k) ==
  IF c.log[k].stage = "handler" THEN HandlerReturns(c)
  ELSE LET mw == MiddlewareNamed(c.log[k].name)
       IN  CASE mw.pre = "throw" -> Throw(mw.error)
             [] mw.pre = "return" -> Value(mw.value)
             [] mw.post = "drop" ->
                  IF StageReturns(c, k + 1).kind = "value" THEN Value(Undefined)
                  ELSE StageReturns(c, k + 1)
             [] mw.post = "catch" ->
                  IF StageReturns(c, k + 1).kind = "throw" THEN Value(mw.value)
                  ELSE StageReturns(c, k + 1)
             [] OTHER -> StageReturns(c, k + 1)

\* C28: the value that is output-validated and wrapped is the one the first
\* stage entered (the outermost middleware; the handler only when the list
\* was empty) returned, each middleware's return value replacing that of
\* the stage below it: a middleware that awaits next() and returns nothing
\* makes it undefined whatever the handler returned.
C28_OutermostReturnValue ==
  \A i \in DOMAIN calls :
    Done(Call(i)) /\ Call(i).log # <<>>
      => LET c == Call(i)
             outermost == StageReturns(c, 1)
         IN  /\ outermost.kind = "value"
                  => /\ c.chainResult = outermost.value
                     /\ c.via \in {"wrap", "output", "catch"}
                     /\ c.outSchema = Undefined
                          => c.result = wrapResult(outermost.value)
             /\ outermost.kind = "throw"
                  => c.via = "catch" /\ c.caught = outermost.error
             /\ c.log[1].stage = "handler" /\ outermost.kind = "value"
                  => c.chainResult = HandlerReturns(c).value
             /\ ( /\ c.log[1].stage = "middleware"
                  /\ MiddlewareNamed(c.log[1].name).post = "drop"
                  /\ outermost.kind = "value" )
                  => c.chainResult = Undefined

\* the handler returned a value, the only middleware awaited next() and
\* returned nothing: the action resolved to an envelope without data
C28_Witness ==
  \E i \in DOMAIN calls :
    /\ Done(Call(i))
    /\ Len(Call(i).log) = 2
    /\ Call(i).log[1].name = "drop"
    /\ HandlerReturns(Call(i)) = Value("v_extra")
    /\ Call(i).chainResult = Undefined
    /\ Call(i).outSchema = Undefined
    /\ Call(i).result = EmptyObject

(***************************************************************************)
(* The list as an in-flight invocation sees it.                            *)
(***************************************************************************)
\* invocation c is suspended inside a middleware that has not called next yet
SuspendedInMiddleware(c) == c.pc = "middleware"

\* the stage the next() call of the middleware c is suspended in would
\* enter if the list were list: a name of the list, or the handler
StageAfter(c, list) ==
  IF Top(c).index + 1 < Len(list)
  THEN [stage |-> "middleware", index |-> Top(c).index + 1,
        name |-> list[Top(c).index + 2].name]
  ELSE [stage |-> "handler", index |-> Top(c).index + 1,
        name |-> actions[c.action].handler.name]

\* invocation c has entered its handler
HandlerEntered(c) == \E k \in DOMAIN c.log : c.log[k].stage = "handler"

\* C29: every next() call of an in-flight invocation reads the list as it
\* is at that step: a middleware appended by use() while the invocation is
\* suspended inside the then-last middleware is the stage its next() call
\* enters, before the handler; once the handler has been entered the
\* invocation enters no further stage, whatever is appended.
C29_ListRereadAtEveryStep ==
  [][ \A i \in DOMAIN calls :
        /\ SuspendedInMiddleware(calls[i]) /\ calls'[i] # calls[i]
             => \E entry \in {StageAfter(calls[i], middlewares)} :
                  /\ Len(Entered(i)) = 1
                  /\ Entered(i)[1].stage = entry.stage
                  /\ Entered(i)[1].index = entry.index
                  /\ Entered(i)[1].name = entry.name
        /\ SuspendedInMiddleware(calls[i]) /\ middlewares' # middlewares
             => /\ calls'[i] = calls[i]
                /\ StageAfter(calls[i], middlewares).stage = "handler"
                     => /\ StageAfter(calls'[i], middlewares').stage = "middleware"
                        /\ StageAfter(calls'[i], middlewares').name
                             = middlewares'[Len(middlewares')].name
        /\ HandlerEntered(calls[i]) => calls'[i].log = calls[i].log
    ]_vars

\* the second invocation, started after the first, entered its handler when
\* the list had one middleware; the first, suspended in that middleware
\* meanwhile, ran the middleware appended later and then the handler
C29_Witness ==
  /\ Len(calls) = 2
  /\ Len(middlewares) = 2
  /\ Done(calls[1]) /\ Done(calls[2])
  /\ Len(calls[1].log) = 3
  /\ calls[1].log[2].name = middlewares[2].name
  /\ calls[1].log[3].stage = "handler"
  /\ Len(calls[2].log) = 2
  /\ calls[2].log[2].stage = "handler"

(***************************************************************************)
(* The engine of the post-metadata builder (MetadataBuilder.createAction), *)
(* written out on its own as the function from an input to what the        *)
(* awaited action does, to be compared with the engine above.              *)
(***************************************************************************)
\* what a chain call gives: what its promise settles with and the stages
\* entered so far
Chain(outcome, log) == [outcome |-> outcome, log |-> log]

\* const middlewareChain = async (index, currentCtx) => ..., of action a;
\* next() is awaited by the middleware, so the inner chain has settled when
\* the middleware goes on
RECURSIVE MetadataBuilder_middlewareChain(_, _, _, _, _)
MetadataBuilder_middlewareChain(a, data, index, currentCtx, log) ==
  IF index >= Len(middlewares)
  THEN LET handler == actions[a].handler
           entered == Append(log, Entry("handler", index, handler.name,
                                        currentCtx, Undefined, data))
       IN  CASE handler.act = "throw" -> Chain(Throw(handler.error), entered)
             [] handler.act = "echo" -> Chain(Value(data), entered)
             [] OTHER -> Chain(Value(handler.value), entered)
  ELSE LET middleware == middlewares[index + 1]
           entered == Append(log, Entry("middleware", index, middleware.name,
                                        currentCtx, builders[actions[a].builder].metadata,
                                        Undefined))
           params == MwParams(middleware, currentCtx)
           newCtx == IF "ctx" \in DOMAIN params THEN params.ctx ELSE EmptyObject
           mergedCtx == newCtx @@ currentCtx
           inner == MetadataBuilder_middlewareChain(a, data, index + 1, mergedCtx,
                                                    entered)
       IN  CASE middleware.pre = "throw" -> Chain(Throw(middleware.error), entered)
             [] middleware.pre = "return" -> Chain(Value(middleware.value), entered)
             [] middleware.post = "catch" /\ inner.outcome.kind = "throw" ->
                  Chain(Value(middleware.value), inner.log)
             [] middleware.post = "drop" /\ inner.outcome.kind = "value" ->
                  Chain(Value(Undefined), inner.log)
             [] OTHER -> inner

\* what the awaited action gives: the envelope and the stages entered
Awaited(result, log) == [result |-> result, log |-> log]

\* MetadataBuilder.createAction, had it wrapped the chain's result without
\* looking at the output schema
MetadataBuilder_createAction_unvalidated(a, input) ==
  LET builder == builders[actions[a].builder]
      options == [defaultServerError |-> config.defaultServerError,
                  isProduction |-> config.isProduction]
      validationResult == validateInput(input, builder.schema)
      chain == MetadataBuilder_middlewareChain(a, validationResult.data, 0,
                                               EmptyObject, <<>>)
  IN  IF validationResult.threw
      THEN Awaited(handleError(validationResult.error, options), <<>>)
      ELSE IF ~validationResult.success
      THEN Awaited(validationResult.result, <<>>)
      ELSE IF chain.outcome.kind = "throw"
      THEN Awaited(handleError(chain.outcome.error, options), chain.log)
      ELSE Awaited(wrapResult(chain.outcome.value), chain.log)

\* MetadataBuilder.createAction(handler), the function it returns applied to
\* input
MetadataBuilder_createAction(a, input) ==
  LET builder == builders[actions[a].builder]
      options == [defaultServerError |-> config.defaultServerError,
                  isProduction |-> config.isProduction]
      validationResult == validateInput(input, builder.schema)
      chain == MetadataBuilder_middlewareChain(a, validationResult.data, 0,
                                               EmptyObject, <<>>)
      handlerResult == chain.outcome.value
      outputValidationResult == validateOutput(handlerResult, builder.outputSchema)
  IN  IF validationResult.threw
      THEN Awaited(handleError(validationResult.error, options), <<>>)
      ELSE IF ~validationResult.success
      THEN Awaited(validationResult.result, <<>>)
      ELSE IF chain.outcome.kind = "throw"
      THEN Awaited(handleError(chain.outcome.error, options), chain.log)
      ELSE IF builder.outputSchema # Undefined
      THEN IF outputValidationResult.threw
           THEN Awaited(handleError(outputValidationResult.error, options),
                        chain.log)
           ELSE IF ~outputValidationResult.success
           THEN Awaited(outputValidationResult.result, chain.log)
           ELSE Awaited(wrapResult(outputValidationResult.data), chain.log)
      ELSE Awaited(wrapResult(handlerResult), chain.log)

(***************************************************************************)
(* Two actions with the same input schema, output schema and handler on    *)
(* one client: action 1 built by the pre-metadata builder, action 2 by the *)
(* post-metadata builder.                                                  *)
(***************************************************************************)
EngineMiddlewares == {mwStep1, mwStep2, mwDrop, mwThrow, mwCatch}

EngineHandlers ==
  { Handler("echo", "echo", Undefined, NoError),
    Handler("bad", "return", "bad_nested", NoError),
    Handler("throw", "throw", Undefined, Err("Error", "Handler error")) }

EngineInputs == {"v_extra", "bad", "boom"}

EngineMetadatas == {Undefined, "meta"}

InitEngines ==
  /\ config = MockSafeActionClient(EmptyObject)
  /\ middlewares \in SeqUpTo(EngineMiddlewares, MaxMiddlewares)
  /\ \E s \in InputSchemas, o \in OutputSchemas \cup {Undefined},
        m \in EngineMetadatas :
       builders = <<[SchemaBuilder(s) EXCEPT !.outputSchema = o],
                    MetadataBuilder(s, m, o)>>
  /\ \E h \in EngineHandlers :
       actions = <<[builder |-> 1, handler |-> h], [builder |-> 2, handler |-> h]>>
  /\ calls = <<>>

NextEngines ==
  \/ \E a \in DOMAIN actions, input \in EngineInputs : Invoke(a, input)
  \/ \E i \in DOMAIN calls : MiddlewareRuns(i)
  \/ \E i \in DOMAIN calls : HandlerRuns(i)
  \/ \E i \in DOMAIN calls : MiddlewareResumes(i)
  \/ \E i \in DOMAIN calls : ChainSettled(i)

SpecEngines == InitEngines /\ [][NextEngines]_vars

\* C30: with the same input schema, output schema, middleware list, config,
\* handler and input, the action of the pre-metadata builder and the action
\* of the post-metadata builder whose metadata is undefined enter the same
\* stages in the same order with the same arguments and return the same
\* envelope.
C30_EnginesEquivalent ==
  \A i \in DOMAIN calls :
    ( /\ Done(Call(i))
      /\ BuilderOf(Call(i).action).kind = "schema"
      /\ BuilderOf(2).metadata = Undefined )
      => /\ Call(i).settled = "resolved"
         /\ Call(i).result = MetadataBuilder_createAction(2, Call(i).input).result
         /\ Call(i).log = MetadataBuilder_createAction(2, Call(i).input).log

\* the pre-metadata action ran two middlewares and its handler and returned
\* validation errors of the output
C30_Witness ==
  \E i \in DOMAIN calls :
    /\ Done(Call(i))
    /\ BuilderOf(Call(i).action).kind = "schema"
    /\ BuilderOf(2).metadata = Undefined
    /\ Len(Call(i).log) = 3
    /\ "validationErrors" \in DOMAIN Call(i).result
    /\ Call(i).log = MetadataBuilder_createAction(2, Call(i).input).log

(***************************************************************************)
(* What one builder call does to the other builders.                       *)
(***************************************************************************)
\* the builders this step created
Created == {b \in DOMAIN builders' : b \notin DOMAIN builders}

\* the existing builders this step changed
Changed == {b \in DOMAIN builders : builders'[b] # builders[b]}

\* C31: metadata() copies the output schema: the builder it returns has the
\* output schema the pre-metadata builder has at that moment, and from then
\* on the two are separate: an outputSchema() call changes the builder it is
\* called on and no other builder (pre-metadata, post-metadata, of the same
\* or of another chain), and the actions of the other builders keep the
\* builder, and so the output schema, they had.
C31_MetadataSnapshotsOutputSchema ==
  [][ /\ \A n \in Created :
           builders'[n].kind = "metadata"
             => \E b \in DOMAIN builders :
                  /\ builders[b].kind = "schema"
                  /\ builders'[b] = builders[b]
                  /\ builders'[n].schema = builders[b].schema
                  /\ builders'[n].outputSchema = builders[b].outputSchema
      /\ Created # {} => Changed = {}
      /\ Cardinality(Changed) <= 1
      /\ \A b \in Changed :
           /\ builders'[b] = [builders[b] EXCEPT
                                !.outputSchema = builders'[b].outputSchema]
           /\ \A a \in DOMAIN actions :
                actions[a].builder # b
                  => /\ actions'[a] = actions[a]
                     /\ builders'[actions'[a].builder] = builders[actions[a].builder]
    ]_vars

\* inputSchema(s), then metadata(m) on it, then outputSchema(o) on the
\* pre-metadata builder: the post-metadata builder and its action still
\* have no output schema
C31_Witness ==
  /\ Len(builders) = 2
  /\ builders[1].kind = "schema" /\ builders[1].outputSchema = "Obj"
  /\ builders[2].kind = "metadata" /\ builders[2].outputSchema = Undefined
  /\ \E a \in DOMAIN actions :
       /\ actions[a].builder = 2
       /\ actions[a].handler.name = "bad"
       /\ Await(a, "v_extra").outSchema = Undefined
       /\ Await(a, "v_extra").result = [data |-> "bad_nested"]

(***************************************************************************)
(* The order in which the middlewares of an invocation go on after their   *)
(* awaited next().                                                         *)
(***************************************************************************)
\* the middlewares of c that have been entered and have not returned,
\* outermost first
Awaiting(c) == [k \in DOMAIN c.stack |-> c.stack[k].index]

\* invocation i returns its envelope in this step
Returns(i) == calls[i].pc # "done" /\ calls'[i].pc = "done"

\* the innermost middleware of invocation i returns in this step
InnermostReturns(i) ==
  /\ calls[i].stack # <<>>
  /\ calls'[i].stack = SubSeq(calls[i].stack, 1, Len(calls[i].stack) - 1)

\* C32: the middlewares that await next() go on in reverse registration
\* order: the middlewares entered and not yet returned are m0..m(k-1) in
\* that order, the one that returns is always the innermost of them, a
\* middleware that awaits next() returns only once the stage below it (the
\* handler first) has completed, and the envelope is returned only when m0
\* has returned.
C32_ReverseOrder ==
  [][ \A i \in DOMAIN calls :
        /\ Awaiting(calls[i]) = [k \in DOMAIN calls[i].stack |-> k - 1]
        /\ calls'[i].stack # calls[i].stack
             => \/ InnermostReturns(i)
                \/ /\ Len(calls'[i].stack) = Len(calls[i].stack) + 1
                   /\ SubSeq(calls'[i].stack, 1, Len(calls[i].stack))
                        = [k \in DOMAIN calls[i].stack |->
                             [calls[i].stack[k] EXCEPT
                                !.again = calls'[i].stack[k].again]]
        /\ ( /\ InnermostReturns(i)
             /\ Top(calls[i]).middleware.pre = "next" )
             => /\ calls[i].pc = "settling"
                /\ HandlerEntered(calls[i])
                     => calls[i].log[Len(calls[i].log)].stage = "handler"
        /\ calls[i].pc = "handler" => calls'[i].stack = calls[i].stack
        /\ Returns(i) => calls[i].stack = <<>> /\ calls[i].pc = "settling"
    ]_vars

\* two middlewares and the handler were entered, the handler returned a
\* value and the second middleware, which drops it, has returned; the first
\* has not, and no envelope has been returned yet
C32_Witness ==
  \E i \in DOMAIN calls :
    /\ Len(Call(i).log) = 3
    /\ Call(i).log[2].name = "drop"
    /\ HandlerReturns(Call(i)).kind = "value"
    /\ HandlerReturns(Call(i)).value # Undefined
    /\ Call(i).pc = "settling"
    /\ Awaiting(Call(i)) = <<0>>
    /\ Call(i).pending = Value(Undefined)
    /\ Call(i).settled = "pending"

\* C33: along the stages of an invocation the key set of the context never
\* shrinks: every key of the context a stage received is a key of the
\* context every later stage of that invocation received, the handler
\* included, also after a middleware that passed a patch without spreading
\* ctx.
C33_ContextKeysNeverShrink ==
  \A i \in DOMAIN calls :
    \A j, k \in DOMAIN Call(i).log :
      j < k => DOMAIN Call(i).log[j].ctx \subseteq DOMAIN Call(i).log[k].ctx

\* the first middleware put step1 and step2 into the context, the second
\* passed {step1: 'done'} without spreading ctx: the handler got both keys,
\* step1 overwritten
C33_Witness ==
  \E i \in DOMAIN calls :
    /\ Len(Call(i).log) = 3
    /\ Call(i).log[1].name = "step2"
    /\ Call(i).log[2].name = "step1"
    /\ Call(i).log[2].ctx = [step1 |-> "redone", step2 |-> "done"]
    /\ Call(i).log[3].stage = "handler"
    /\ Call(i).log[3].ctx = [step1 |-> "done", step2 |-> "done"]

(***************************************************************************)
(* User code that throws the schema library's own validation error.        *)
(***************************************************************************)
ZodErrorThrown == Err("ZodError", "Invalid action metadata")

\* async ({metadata}) => { metadataSchema.parse(metadata); ... }, the
\* metadata not matching
mwZod == Mw("zod", "throw", FALSE, FALSE, EmptyObject, "pass", Undefined, ZodErrorThrown)

\* async ({next}) => { try { return await next() } catch { return 'bad' } }
mwCatchBad == Mw("catchBad", "next", FALSE, FALSE, EmptyObject, "catch", "bad", NoError)

ZodMiddlewares == {mwStep1, mwZod, mwCatchBad}

\* the handler parses something itself and lets the ZodError out
ZodHandlers ==
  { Handler("echo", "echo", Undefined, NoError),
    Handler("zod", "throw", Undefined, ZodErrorThrown) }

ZodInputs == {"v_extra", "bad"}

InitZod ==
  /\ config \in {MockSafeActionClient(cfg) : cfg \in SuppliedConfigs}
  /\ middlewares \in SeqUpTo(ZodMiddlewares, MaxMiddlewares)
  /\ \E s \in InputSchemas, o \in OutputSchemas \cup {Undefined} :
       builders = <<[SchemaBuilder(s) EXCEPT !.outputSchema = o]>>
  /\ \E h \in ZodHandlers : actions = <<[builder |-> 1, handler |-> h]>>
  /\ calls = <<>>

NextZod ==
  \/ \E a \in DOMAIN actions, input \in ZodInputs : Invoke(a, input)
  \/ \E i \in DOMAIN calls : MiddlewareRuns(i)
  \/ \E i \in DOMAIN calls : HandlerRuns(i)
  \/ \E i \in DOMAIN calls : MiddlewareResumes(i)
  \/ \E i \in DOMAIN calls : ChainSettled(i)

SpecZod == InitZod /\ [][NextZod]_vars

\* the envelope has structured validation errors
Structured(envelope) ==
  "fieldErrors" \in DOMAIN envelope \/ "validationErrors" \in DOMAIN envelope

\* C34 as stated: an invocation in which a middleware or the handler threw,
\* a ZodError included, returns serverError and neither fieldErrors nor
\* validationErrors.
C34_ThrownIsServerError ==
  \A i \in DOMAIN calls :
    (Done(Call(i)) /\ Call(i).thrown # <<>>)
      => /\ "serverError" \in DOMAIN Call(i).result
         /\ ~Structured(Call(i).result)

\* C34 amended: an error thrown by a middleware or the handler that no
\* enclosing middleware catches, a ZodError included, is returned as
\* serverError (its message, the default in production) and as nothing
\* else; fieldErrors come from the input validation phase only and
\* validationErrors from the output validation phase only.
C34_UncaughtThrownIsServerError ==
  \A i \in DOMAIN calls :
    Done(Call(i))
      => /\ Uncaught(Call(i))
              => /\ Call(i).via = "catch"
                 /\ Call(i).caught = Call(i).thrown[1]
                 /\ Call(i).result
                      = [serverError |-> ExpectedServerError(Call(i).thrown[1])]
         /\ "fieldErrors" \in DOMAIN Call(i).result
              => Call(i).via = "input" /\ Call(i).log = <<>>
         /\ "validationErrors" \in DOMAIN Call(i).result
              => /\ Call(i).via = "output"
                 /\ Call(i).outSchema # Undefined
                 /\ OutputParse(Call(i)).kind = "zod"

\* the handler threw a ZodError past a passing middleware, not in
\* production: the envelope is serverError with the ZodError's message
C34_Witness ==
  \E i \in DOMAIN calls :
    /\ Done(Call(i))
    /\ Len(Call(i).log) = 2
    /\ Call(i).log[1].name = "step1"
    /\ Call(i).log[2].stage = "handler"
    /\ Call(i).thrown = <<ZodErrorThrown>>
    /\ Uncaught(Call(i))
    /\ ~config.isProduction
    /\ Call(i).result = [serverError |-> "Invalid action metadata"]

(***************************************************************************)
(* Two clients that differ in isProduction or defaultServerError only: the *)
(* action function as a function of what createAction reads from          *)
(* this.config.                                                            *)
(***************************************************************************)
\* the fields of this.config createAction reads
OptionsOf(cfg) ==
  [defaultServerError |-> cfg.defaultServerError, isProduction |-> cfg.isProduction]

TwinOptions ==
  { [defaultServerError |-> d, isProduction |-> p] :
      d \in {"Something went wrong", "Custom error"}, p \in BOOLEAN }

\* the envelope action a returns for input on a client that is this one but
\* for options
createActionOf(options, a, input) ==
  LET builder == builders[actions[a].builder]
      validationResult == validateInput(input, builder.schema)
      chain == MetadataBuilder_middlewareChain(a, validationResult.data, 0,
                                               EmptyObject, <<>>)
      handlerResult == chain.outcome.value
      outputValidationResult == validateOutput(handlerResult, builder.outputSchema)
  IN  IF validationResult.threw THEN handleError(validationResult.error, options)
      ELSE IF ~validationResult.success THEN validationResult.result
      ELSE IF chain.outcome.kind = "throw"
      THEN handleError(chain.outcome.error, options)
      ELSE IF builder.outputSchema # Undefined
      THEN IF outputValidationResult.threw
           THEN handleError(outputValidationResult.error, options)
           ELSE IF ~outputValidationResult.success
           THEN outputValidationResult.result
           ELSE wrapResult(outputValidationResult.data)
      ELSE wrapResult(handlerResult)

TwinMiddlewares == {mwStep1, mwThrow, mwShort}

TwinHandlers ==
  { Handler("echo", "echo", Undefined, NoError),
    Handler("bad", "return", "bad_nested", NoError),
    Handler("throw", "throw", Undefined, Err("Error", "Handler error")) }

TwinInputs == {"v_extra", "bad", "bad_proto"}

InitTwin ==
  /\ config \in {MockSafeActionClient(cfg) : cfg \in SuppliedConfigs}
  /\ middlewares \in SeqUpTo(TwinMiddlewares, MaxMiddlewares)
  /\ \E s \in InputSchemas, o \in OutputSchemas \cup {Undefined} :
       builders = <<[SchemaBuilder(s) EXCEPT !.outputSchema = o]>>
  /\ \E h \in TwinHandlers : actions = <<[builder |-> 1, handler |-> h]>>
  /\ calls = <<>>

NextTwin ==
  \/ \E a \in DOMAIN actions, input \in TwinInputs : Invoke(a, input)
  \/ \E i \in DOMAIN calls : MiddlewareRuns(i)
  \/ \E i \in DOMAIN calls : HandlerRuns(i)
  \/ \E i \in DOMAIN calls : MiddlewareResumes(i)
  \/ \E i \in DOMAIN calls : ChainSettled(i)

SpecTwin == InitTwin /\ [][NextTwin]_vars

\* what the chain of action a gives for input, the input being valid
ChainOutcome(a, input) ==
  MetadataBuilder_middlewareChain(
    a, Parse(builders[actions[a].builder].schema, input).data, 0, EmptyObject,
    <<>>).outcome

\* the input schema rejects input with issues
InputValidationFails(a, input) ==
  Parse(builders[actions[a].builder].schema, input).kind = "zod"

\* the input is valid, the chain returns a value and the output schema
\* rejects that value with issues
OutputValidationFails(a, input) ==
  /\ Parse(builders[actions[a].builder].schema, input).kind = "ok"
  /\ ChainOutcome(a, input).kind = "value"
  /\ builders[actions[a].builder].outputSchema # Undefined
  /\ Parse(builders[actions[a].builder].outputSchema,
           ChainOutcome(a, input).value).kind = "zod"

\* the input is valid, the chain returns a value and the output schema, if
\* there is one, accepts it
Succeeds(a, input) ==
  /\ Parse(builders[actions[a].builder].schema, input).kind = "ok"
  /\ ChainOutcome(a, input).kind = "value"
  /\ builders[actions[a].builder].outputSchema # Undefined
       => Parse(builders[actions[a].builder].outputSchema,
                ChainOutcome(a, input).value).kind = "ok"

\* C35: the envelope of an invocation that ends in an input validation
\* failure, an output validation failure or success is the same on two
\* clients that differ only in isProduction or defaultServerError (every
\* finished invocation of this client returning what the function of the
\* options gives for this client's options).
C35_ValidationIgnoresProduction ==
  /\ \A i \in DOMAIN calls :
       Done(Call(i))
         => Call(i).result
              = createActionOf(OptionsOf(config), Call(i).action, Call(i).input)
  /\ \A a \in DOMAIN actions, input \in TwinInputs :
       ( \/ InputValidationFails(a, input)
         \/ OutputValidationFails(a, input)
         \/ Succeeds(a, input) )
         => \A o1, o2 \in TwinOptions :
              createActionOf(o1, a, input) = createActionOf(o2, a, input)

(***************************************************************************)
(* Termination: a client whose list is not extended any more, stages that  *)
(* complete and call next at most once, overlapping invocations, and the   *)
(* event loop running every continuation that is ready.                    *)
(***************************************************************************)
SpecTerminates ==
  /\ InitRepeat
  /\ [][NextRepeat]_vars
  /\ \A i \in 1..MaxCalls : WF_vars(Continues(i))

\* C36: with a list that is not extended during the invocation and stages
\* that complete and call next at most once, every invocation eventually
\* returns, it returns one envelope (the promise resolves and nothing
\* happens in the invocation afterwards), and it has entered each stage at
\* most once, the stages of one pass over the list.
C36_TerminatesWithOneEnvelope ==
  /\ [](\A i \in DOMAIN calls :
          /\ EnteredOnce(Call(i))
          /\ Len(Call(i).log) <= Len(middlewares) + 1
          /\ Done(Call(i)) => /\ Call(i).settled = "resolved"
                              /\ Call(i).via \in {"input", "output", "wrap", "catch"})
  /\ [][\A i \in DOMAIN calls : Done(calls[i]) => calls'[i] = calls[i]]_vars
  /\ \A i \in 1..MaxCalls :
       (i \in DOMAIN calls) ~> (i \in DOMAIN calls /\ Done(calls[i]))

\* two invocations have returned: one after a pass over two middlewares
\* and a handler that threw, one with the fieldErrors of its input
C36_Witness ==
  /\ Len(middlewares) = 2
  /\ \E i, j \in DOMAIN calls :
       /\ Done(Call(i)) /\ Done(Call(j))
       /\ Len(Call(i).log) = 3 /\ Call(i).via = "catch"
       /\ Call(i).thrown = <<Err("Error", "Handler error")>>
       /\ "serverError" \in DOMAIN Call(i).result
       /\ Call(j).log = <<>> /\ Call(j).via = "input"

(***************************************************************************)
(* scripts/analyze-commits.ts.  A commit message is a sequence of pieces:  *)
(* " " is white space, the others are the words the script looks for and   *)
(* "x" any other text.  trim, startsWith and includes work on the pieces.  *)
(* A run of a script is kept in calls; the client part of the state is not *)
(* touched.                                                                *)
(***************************************************************************)
MaxMessages == 3

\* String.prototype.trim
RECURSIVE trim(_)
trim(message) ==
  IF message = <<>> THEN <<>>
  ELSE IF Head(message) = " " THEN trim(Tail(message))
  ELSE IF message[Len(message)] = " "
  THEN trim(SubSeq(message, 1, Len(message) - 1))
  ELSE message

\* String.prototype.startsWith, for one of the words
startsWith(message, word) == message # <<>> /\ Head(message) = word

\* String.prototype.includes, for one of the words
includes(message, word) == \E k \in DOMAIN message : message[k] = word

\* the lines the script is fed
CommitMessages ==
  { <<>>, <<" ">>,
    <<"feat:", " ", "x">>, <<" ", "feat:", "x", " ">>, <<"x", "feat:">>,
    <<"feat!:", "x">>, <<"fix:", "x", "BREAKING CHANGE:", "x">>,
    <<"fix:", "x">>, <<"docs:", "x">> }

\* the flags after the loop has seen the messages
Flags(hasBreakingChange, hasFeature, hasFix) ==
  [hasBreakingChange |-> hasBreakingChange, hasFeature |-> hasFeature,
   hasFix |-> hasFix]

\* one pass of the for loop
analyzeMessage(flags, message) ==
  LET trimmed == trim(message)
  IN  IF trimmed = <<>> THEN flags
      ELSE IF startsWith(trimmed, "feat!:") \/ includes(trimmed, "BREAKING CHANGE:")
      THEN [flags EXCEPT !.hasBreakingChange = TRUE]
      ELSE IF startsWith(trimmed, "feat:") THEN [flags EXCEPT !.hasFeature = TRUE]
      ELSE IF \/ startsWith(trimmed, "fix:")
              \/ startsWith(trimmed, "perf:")
              \/ startsWith(trimmed, "refactor:")
              \/ startsWith(trimmed, "style:")
      THEN [flags EXCEPT !.hasFix = TRUE]
      ELSE flags

\* for (const message of commitMessages) { ... }
RECURSIVE analyzeLoop(_, _)
analyzeLoop(flags, commitMessages) ==
  IF commitMessages = <<>> THEN flags
  ELSE analyzeLoop(analyzeMessage(flags, Head(commitMessages)),
                   Tail(commitMessages))

\* analyzeCommits, had each conventional commit set the result by itself
\* (the last one deciding)
RECURSIVE analyzeCommits_lastWins(_)
analyzeCommits_lastWins(commitMessages) ==
  IF commitMessages = <<>> THEN "patch"
  ELSE LET flags == analyzeMessage(Flags(FALSE, FALSE, FALSE),
                                   commitMessages[Len(commitMessages)])
       IN  IF flags.hasBreakingChange THEN "major"
           ELSE IF flags.hasFeature THEN "minor"
           ELSE IF flags.hasFix THEN "patch"
           ELSE analyzeCommits_lastWins(SubSeq(commitMessages, 1,
                                               Len(commitMessages) - 1))

analyzeCommits(commitMessages) ==
  LET flags == analyzeLoop(Flags(FALSE, FALSE, FALSE), commitMessages)
  IN  IF flags.hasBreakingChange THEN "major"
      ELSE IF flags.hasFeature THEN "minor"
      ELSE IF flags.hasFix THEN "patch"
      ELSE "patch"

\* const bumpType = analyzeCommits(commitMessages), for one list of messages
Analyze(commitMessages) ==
  /\ calls = <<>>
  /\ calls' = <<[script |-> "analyze-commits", commitMessages |-> commitMessages,
                 bumpType |-> analyzeCommits(commitMessages)]>>
  /\ UNCHANGED <<config, middlewares, builders, actions>>

NextAnalyze ==
  \E commitMessages \in SeqUpTo(CommitMessages, MaxMessages) :
    Analyze(commitMessages)

SpecAnalyze == InitBuild /\ [][NextAnalyze]_vars

\* the message, trimmed, is not empty and is a breaking change
IsBreaking(message) ==
  /\ trim(message) # <<>>
  /\ \/ trim(message)[1] = "feat!:"
     \/ \E k \in DOMAIN trim(message) : trim(message)[k] = "BREAKING CHANGE:"

\* the message, trimmed, starts with 'feat:'
IsFeature(message) == trim(message) # <<>> /\ trim(message)[1] = "feat:"

\* the highest bump among a set of messages
HighestBump(messages) ==
  IF \E m \in messages : IsBreaking(m) THEN "major"
  ELSE IF \E m \in messages : IsFeature(m) THEN "minor"
  ELSE "patch"

\* the messages of a list, as a set
MessagesOf(commitMessages) == {commitMessages[k] : k \in DOMAIN commitMessages}

\* the list backwards
Reversed(commitMessages) ==
  [k \in DOMAIN commitMessages |-> commitMessages[Len(commitMessages) + 1 - k]]

\* C37: analyzeCommits returns the highest bump present among the messages,
\* 'major' over 'minor' over 'patch', 'patch' also when no message is a
\* conventional commit; the result depends on the set of messages only:
\* reversing, rotating or repeating the list does not change it.
C37_HighestBumpAnyOrder ==
  \A r \in DOMAIN calls :
    LET messages == calls[r].commitMessages
    IN  /\ calls[r].bumpType = HighestBump(MessagesOf(messages))
        /\ analyzeCommits(Reversed(messages)) = calls[r].bumpType
        /\ analyzeCommits(messages \o messages) = calls[r].bumpType
        /\ messages # <<>>
             => /\ analyzeCommits(Append(Tail(messages), Head(messages)))
                     = calls[r].bumpType
                /\ analyzeCommits(<<Head(messages)>> \o messages)
                     = calls[r].bumpType

\* a fix, then a breaking change in a body line, then a feature: major,
\* although the feature comes last
C37_Witness ==
  \E r \in DOMAIN calls :
    /\ calls[r].commitMessages
         = << <<"fix:", "x">>, <<"fix:", "x", "BREAKING CHANGE:", "x">>,
              <<" ", "feat:", "x", " ">> >>
    /\ calls[r].bumpType = "major"

(***************************************************************************)
(* scripts/bump-version.ts.  The version in package.json is a string, here *)
(* the sequence of its characters; split('.'), Number and the template     *)
(* literal convert between it and the three numbers.  The run of the       *)
(* script and the file are kept in calls.                                  *)
(***************************************************************************)
MaxComponent == 10

Digits == <<"0", "1", "2", "3", "4", "5", "6", "7", "8", "9">>

\* Number(s), s a string of decimal digits
RECURSIVE Number(_)
Number(s) ==
  IF s = <<>> THEN 0
  ELSE 10 * Number(SubSeq(s, 1, Len(s) - 1))
         + ((CHOOSE d \in DOMAIN Digits : Digits[d] = s[Len(s)]) - 1)

\* `${n}`, n a natural number
RECURSIVE NumberToString(_)
NumberToString(n) ==
  IF n < 10 THEN <<Digits[n + 1]>>
  ELSE Append(NumberToString(n \div 10), Digits[(n % 10) + 1])

\* s.split('.')
RECURSIVE split(_)
split(s) ==
  IF \A k \in DOMAIN s : s[k] # "." THEN <<s>>
  ELSE LET dot == CHOOSE k \in DOMAIN s :
                    s[k] = "." /\ \A j \in 1..(k - 1) : s[j] # "."
       IN  <<SubSeq(s, 1, dot - 1)>> \o split(SubSeq(s, dot + 1, Len(s)))

\* `${major}.${minor}.${patch}`
Template(major, minor, patch) ==
  NumberToString(major) \o <<".">> \o NumberToString(minor) \o <<".">>
    \o NumberToString(patch)

\* the ways a component is written in package.json: plainly, and the 1
\* with a leading zero
ComponentStrings == {NumberToString(n) : n \in 0..MaxComponent} \cup {<<"0", "1">>}

Versions ==
  { a \o <<".">> \o b \o <<".">> \o c :
      a \in ComponentStrings, b \in ComponentStrings, c \in ComponentStrings }

\* process.argv[2]: a bump type, something else, or nothing
BumpArguments == {"major", "minor", "patch", "premajor", Undefined}

\* bumpVersion, had minor and major kept the lower components
bumpVersion_keepsLower(version, type) ==
  LET parts == split(version)
      major == Number(parts[1])
      minor == Number(parts[2])
      patch == Number(parts[3])
  IN  IF type = "major" THEN Template(major + 1, minor, patch)
      ELSE IF type = "minor" THEN Template(major, minor + 1, patch)
      ELSE Template(major, minor, patch + 1)

\* bumpVersion(type) on a package.json with that version: the new version
bumpVersion(version, type) ==
  LET parts == split(version)
      major == Number(parts[1])
      minor == Number(parts[2])
      patch == Number(parts[3])
  IN  IF type = "major" THEN Template(major + 1, 0, 0)
      ELSE IF type = "minor" THEN Template(major, minor + 1, 0)
      ELSE Template(major, minor, patch + 1)

\* package.json as the script finds it, the script not run yet
InitBump ==
  /\ config = MockSafeActionClient(EmptyObject)
  /\ middlewares = <<>>
  /\ builders = <<>>
  /\ actions = <<>>
  /\ \E v \in Versions :
       calls = <<[script |-> "bump-version", packageJson |-> [version |-> v],
                  before |-> v, type |-> Undefined, stdout |-> Undefined,
                  exited |-> FALSE, exitCode |-> 0]>>

\* tsx scripts/bump-version.ts <type>, with an argument the script rejects
BumpRejected(type) ==
  /\ type \notin {"major", "minor", "patch"}
  /\ calls' = <<[calls[1] EXCEPT !.before = calls[1].packageJson.version,
                                 !.type = type, !.stdout = Undefined,
                                 !.exited = TRUE, !.exitCode = 1]>>
  /\ UNCHANGED <<config, middlewares, builders, actions>>

\* tsx scripts/bump-version.ts <type>, with a bump type
Bump(type) ==
  /\ type \in {"major", "minor", "patch"}
  /\ \A k \in 1..3 : Number(split(calls[1].packageJson.version)[k]) < MaxComponent
  /\ LET newVersion == bumpVersion(calls[1].packageJson.version, type)
     IN  calls' = <<[calls[1] EXCEPT !.before = calls[1].packageJson.version,
                                     !.packageJson.version = newVersion,
                                     !.type = type, !.stdout = newVersion,
                                     !.exited = TRUE, !.exitCode = 0]>>
  /\ UNCHANGED <<config, middlewares, builders, actions>>

NextBump ==
  \/ \E type \in BumpArguments : BumpRejected(type)
  \/ \E type \in BumpArguments : Bump(type)

SpecBump == InitBump /\ [][NextBump]_vars

\* the three numbers of a version string
Components(version) ==
  [k \in 1..3 |-> Number(split(version)[k])]

\* C38: a run with 'major', 'minor' or 'patch' writes the version in which
\* exactly that component is one higher, every lower component is 0 and
\* every higher component is what it was ((major+1).0.0, major.(minor+1).0,
\* major.minor.(patch+1)); a run with any other argument leaves the version
\* as it was and exits with an error.
C38_SemanticVersionBump ==
  \A r \in DOMAIN calls :
    calls[r].exited
      => LET old == Components(calls[r].before)
             new == Components(calls[r].packageJson.version)
             bumped == CASE calls[r].type = "major" -> 1
                         [] calls[r].type = "minor" -> 2
                         [] calls[r].type = "patch" -> 3
                         [] OTHER -> 0
         IN  IF bumped = 0
             THEN /\ calls[r].exitCode = 1
                  /\ calls[r].packageJson.version = calls[r].before
             ELSE /\ calls[r].exitCode = 0
                  /\ Len(split(calls[r].packageJson.version)) = 3
                  /\ new[bumped] = old[bumped] + 1
                  /\ \A k \in 1..3 : k < bumped => new[k] = old[k]
                  /\ \A k \in 1..3 : k > bumped => new[k] = 0
                  /\ calls[r].packageJson.version = Template(new[1], new[2], new[3])
                  /\ calls[r].stdout = calls[r].packageJson.version

\* 9.01.3 bumped with 'minor' is 9.2.0
C38_Witness ==
  \E r \in DOMAIN calls :
    /\ calls[r].type = "minor"
    /\ calls[r].before = <<"9", ".", "0", "1", ".", "3">>
    /\ calls[r].packageJson.version = <<"9", ".", "2", ".", "0">>
    /\ calls[r].exited /\ calls[r].exitCode = 0
====
